---- MODULE Spec2Model ----
(***************************************************************************)
(* Model of the in-memory job orchestrator of AetherStudio                 *)
(* (backend/services/background_tasks.py, BackgroundTaskManager).          *)
(*                                                                         *)
(* One asyncio event loop runs the manager: every coroutine runs without   *)
(* interruption between two awaits, so each action below is the code       *)
(* between two suspension points of one coroutine.                         *)
(***************************************************************************)
EXTENDS Integers, Sequences, FiniteSets, TLC

\* ---------------------------------------------------------------- bounds
MaxJobs == 2            \* number of submit calls explored
MaxTime == 1            \* the clock runs over 0..MaxTime (hours)

max_concurrent == 1     \* constructor argument: size of the counting semaphore

\* ------------------------------------------------------------ value sets
Ids == 1..MaxJobs
PENDING == "pending"
PROCESSING == "processing"
COMPLETED == "completed"
FAILED == "failed"
TaskStatus == {PENDING, PROCESSING, COMPLETED, FAILED}
Terminal == {COMPLETED, FAILED}

None == "None"          \* Python None for result and error
NoTime == -1            \* Python None for completed_at
CancelledMsg == "Cancelled by user"

Results == {"r1"}                  \* values an executor may return
Messages == {"boom"}               \* str(e) of exceptions an executor may raise
ProgressInputs == {-5, 40, 130}     \* arguments given to update_progress
MaxAgeInputs == {0, 1}             \* arguments given to cleanup_old_tasks

VARIABLES
  _tasks,      \* self._tasks: the ids in the dict, in insertion order
  task,        \* the BackgroundTask object of every id (lives on while referenced)
  nextId,      \* number of ids handed out so far, plus one
  pc,          \* position of the _execute coroutine of every id
  _value,      \* self._semaphore._value
  _waiters,    \* self._semaphore._waiters: ids of the coroutines queued in acquire()
  now,         \* datetime.utcnow(), in hours
  last,        \* the operation that took the last step, its argument and what it returned
  \* --- MemoryCache / AudioCacheService (backend/services/cache_service.py)
  _cache,      \* MemoryCache._cache: the entries of the OrderedDict, oldest first
  clock,       \* time.time(), in seconds
  disk,        \* the keys that have a file <key>.wav in cache_dir
  cops,        \* number of cache calls made so far
  clast,       \* the cache call that took the last step and what it returned
  recency,     \* history: the stored keys, least recently accessed (set or get hit) first
  get_hits,    \* history: number of MemoryCache.get calls that returned a hit
  given,       \* history: the ttl argument of the set() that stored each stored key
  \* --- WebhookService (backend/services/webhook_service.py)
  _webhooks,          \* self._webhooks: the WebhookConfig object of every id, 0 for none
  hook,               \* the WebhookConfig objects (an object lives on while a call holds it)
  nextObj,            \* number of WebhookConfig objects made so far, plus one
  _delivery_history,  \* self._delivery_history
  send,               \* the send_webhook calls: position and local variables
  nextSend,           \* number of send_webhook calls made so far, plus one
  hnow,               \* datetime.utcnow(), in coarse units
  hops,               \* number of register, create, update and delete calls made so far
  broadcast,          \* the broadcast_event call: position and local variables
  hlast               \* the webhook operation that took the last step

cacheVars == <<_cache, clock, disk, cops, clast, recency, get_hits, given>>

hookVars ==
  <<_webhooks, hook, nextObj, _delivery_history, send, nextSend, hnow, hops, broadcast,
    hlast>>

\* the variables of the components other than the job manager
outsideJobs == <<cacheVars, hookVars>>

vars == <<_tasks, task, nextId, pc, _value, _waiters, now, last, cacheVars, hookVars>>

\* ------------------------------------------------------------ helpers
Min(a, b) == IF a < b THEN a ELSE b
Max(a, b) == IF a > b THEN a ELSE b

Range(s) == {s[i] : i \in 1..Len(s)}

\* s without its entries that are in the set R, order kept
RECURSIVE Without(_, _)
Without(s, R) ==
  IF s = <<>> THEN <<>>
  ELSE IF Head(s) \in R THEN Without(Tail(s), R)
       ELSE <<Head(s)>> \o Without(Tail(s), R)

\* the object before submit has built it
Unborn == [status |-> "unborn", completed_at |-> NoTime,
           result |-> None, error |-> None, progress |-> 0]

\* BackgroundTask(id, status=PENDING, ...) with the defaults of lines 36-39.
\* created_at and metadata are written here once and only copied into
\* snapshots afterwards; no operation reads them, and they are left out.
NewTask == [status |-> PENDING, completed_at |-> NoTime,
            result |-> None, error |-> None, progress |-> 0]

InTable(id) == id \in Range(_tasks)

\* ------------------------------------------------------------ cache inputs
NoTtl == -1             \* ttl=None
Keys == {"a", "b", "c", "d"}
TtlKeys == {"a", "b"}   \* the keys used where entries age
Values == {"v1", "v2"}
TtlInputs == {NoTtl, 0, 1}
Faults == {"none", "hash", "disk"}

\* a cache call: its name, key, value and ttl arguments, the exception raised
\* inside it ("none" when there is none), the value returned, whether an
\* exception left the call, and whether the lookup removed an entry
Call(op, k, v, ttl, ret) ==
  [op |-> op, key |-> k, val |-> v, ttl |-> ttl, fault |-> "none", ret |-> ret,
   raised |-> FALSE, dropped |-> FALSE]

\* MemoryCache.__init__ and AudioCacheService.__init__: an empty store
CacheInit ==
  /\ _cache = <<>>
  /\ clock = 0
  /\ disk = {}
  /\ cops = 0
  /\ clast = Call("init", None, None, NoTtl, None)
  /\ recency = <<>>
  /\ get_hits = 0
  /\ given = [k \in Keys |-> NoTtl]

\* ------------------------------------------------------------ webhook inputs
MaxRegs == 2            \* number of WebhookConfig objects explored
MaxSends == 1           \* number of send_webhook calls explored
MaxHookOps == 3         \* number of register, create, update and delete calls explored
MaxHookTime == 1        \* the webhook clock runs over 0..MaxHookTime
max_retries == 3        \* constructor argument: attempts of one send_webhook call
retry_delay == 1        \* constructor argument: retry_delay_seconds
DeactivateAt == 10      \* line 352: failure_count that deactivates a webhook
MaxCalls == 11          \* number of send_webhook calls the service keeps track of

HookIds == {"w1"}
ObjIds == 1..MaxRegs
SendIds == 1..MaxSends
Users == {1}
AllHookIds == {"w1", "w2"}    \* the keys that self._webhooks may hold
Slots == 1..MaxCalls          \* the send_webhook calls

\* the closed vocabulary of WebhookEvent
WebhookEvent ==
  {"task.completed", "task.failed", "voice.clone.completed", "voice.convert.completed",
   "training.started", "training.completed", "training.failed", "credits.low",
   "payment.received"}

UrlInputs == {"http://h", "https://h", "ftp://h"}
EventsInputs == {{"task.completed"}, {"task.completed", "task.done"}, {}}
SendEvents == {"task.completed", "task.failed"}
Secrets == {None}
Datas == {"d"}
Timeout == -1           \* httpx.TimeoutException instead of a response
Outcomes == {200, 500, Timeout}

\* optional arguments of update_webhook: {} is None, {x} is the value x
UrlArgs == {{}}
EventsArgs == {{}}
SecretArgs == {{}}
ActiveArgs == {{}, {TRUE}, {FALSE}}

\* a slot of hook that holds no object yet
Unmade ==
  [id |-> None, user_id |-> 0, url |-> None, events |-> {}, secret |-> None,
   active |-> FALSE, last_triggered_at |-> NoTime, failure_count |-> 0]

\* WebhookDeliveryResult; status_code 0 is None.  response_body and duration_ms
\* are left out: nothing reads them.
DeliveryResult(success, wid, event, status_code, error, attempts) ==
  [success |-> success, webhook_id |-> wid, event |-> event,
   status_code |-> status_code, error |-> error, attempts |-> attempts]

NoResult == DeliveryResult(FALSE, None, None, 0, None, 0)

\* a send_webhook call that has not been made.  body and headers are the
\* locals payload_json and headers, waited is the part of the current
\* asyncio.sleep that has passed, requests lists what client.post was given.
\* tester says that the call was made by the test endpoint, which awaits it,
\* and original_events is the local of that name of the endpoint.
Idle ==
  [pc |-> "idle", wid |-> None, event |-> None, obj |-> 0, attempt |-> 0,
   attempts |-> 0, last_error |-> None, delay |-> 0, posted |-> 0, result |-> NoResult,
   waited |-> 0, body |-> None, headers |-> <<>>, requests |-> <<>>,
   tester |-> FALSE, original_events |-> {}]

\* a webhook call: its name, the webhook id, the send_webhook call it belongs
\* to (0 for none), the url and events arguments of a registration, the
\* error it ended with (None for none), the outcome of a POST, and the limit
\* argument and the returned list of get_delivery_history
HookCall(op, wid, s, err) ==
  [op |-> op, wid |-> wid, s |-> s, url |-> None, events |-> {}, err |-> err,
   outcome |-> 0, limit |-> 0, ret |-> <<>>]

RegCall(op, wid, url, events, err) ==
  [op |-> op, wid |-> wid, s |-> 0, url |-> url, events |-> events, err |-> err,
   outcome |-> 0, limit |-> 0, ret |-> <<>>]

\* the step in which the POST of call s ends with outcome
OutcomeCall(wid, s, outcome) ==
  [HookCall("send.respond", wid, s, None) EXCEPT !.outcome = outcome]

\* WebhookService.__init__: no webhook, no delivery
\* a broadcast_event call that has not been made.  todo is what the for loop
\* has still to visit, cur the send_webhook call awaited, results the local
\* list; turns lists, for every webhook visited, the object as the loop saw it
\* and the send_webhook call made for it (0 for none).
NoBroadcast ==
  [pc |-> "idle", user_id |-> 0, event |-> None, data |-> None, todo |-> <<>>,
   cur |-> 0, results |-> <<>>, turns |-> <<>>]

HookInit ==
  /\ _webhooks = [w \in AllHookIds |-> 0]
  /\ hook = [o \in ObjIds |-> Unmade]
  /\ nextObj = 1
  /\ _delivery_history = <<>>
  /\ send = [s \in Slots |-> Idle]
  /\ nextSend = 1
  /\ hnow = 0
  /\ hops = 0
  /\ broadcast = NoBroadcast
  /\ hlast = HookCall("init", None, 0, None)

Init ==
  /\ CacheInit
  /\ HookInit
  /\ _tasks = <<>>
  /\ task = [j \in Ids |-> Unborn]
  /\ nextId = 1
  /\ pc = [j \in Ids |-> "unborn"]
  /\ _value = max_concurrent
  /\ _waiters = <<>>
  /\ now = 0
  /\ last = [op |-> "init", id |-> 0, arg |-> 0, ret |-> None]

\* faulty variant of Submit: the job is marked Processing at submission time
Submit_marks_processing ==
  /\ nextId <= MaxJobs
  /\ _tasks' = Append(_tasks, nextId)
  /\ task' = [task EXCEPT ![nextId] = [NewTask EXCEPT !.status = PROCESSING]]
  /\ pc' = [pc EXCEPT ![nextId] = "scheduled"]
  /\ nextId' = nextId + 1
  /\ last' = [op |-> "submit", id |-> nextId, arg |-> 0, ret |-> nextId]
  /\ UNCHANGED <<_value, _waiters, now>>
  /\ UNCHANGED outsideJobs

\* ------------------------------------------------------------ submit
Submit ==
  /\ nextId <= MaxJobs
  /\ _tasks' = Append(_tasks, nextId)
  /\ task' = [task EXCEPT ![nextId] = NewTask]
  /\ pc' = [pc EXCEPT ![nextId] = "scheduled"]
  /\ nextId' = nextId + 1
  /\ last' = [op |-> "submit", id |-> nextId, arg |-> 0, ret |-> nextId]
  /\ UNCHANGED <<_value, _waiters, now>>
  /\ UNCHANGED outsideJobs

\* ------------------------------------------------------------ semaphore
\* asyncio.Semaphore as used by "async with self._semaphore".  A waiter's
\* future is done from the moment release() hands it the slot (pc "granted")
\* until the waiter runs again and removes itself from _waiters.
Granted == {j \in Ids : pc[j] = "granted"}

\* faulty variant of locked: acquire() never finds the semaphore taken
locked_never == FALSE

\* Semaphore.locked(): no slot free, or somebody is queued already
locked == _value = 0 \/ Len(_waiters) > 0

\* faulty variant of wake_up_next: the slot handed to the waiter is not counted
wake_up_next_uncounted(v, w, g) ==
  LET cand == {i \in 1..Len(w) : w[i] \notin g}
  IN  IF cand = {} THEN [v |-> v, g |-> g]
      ELSE LET i == CHOOSE k \in cand : \A m \in cand : k <= m
           IN  [v |-> v, g |-> g \cup {w[i]}]

\* Semaphore._wake_up_next() on counter v, queue w and done futures g:
\* hand a slot to the first waiter whose future is not done
wake_up_next(v, w, g) ==
  LET cand == {i \in 1..Len(w) : w[i] \notin g}
  IN  IF cand = {} THEN [v |-> v, g |-> g]
      ELSE LET i == CHOOSE k \in cand : \A m \in cand : k <= m
           IN  [v |-> v - 1, g |-> g \cup {w[i]}]

\* faulty variant of release: the slot is not given back
release_skipped(v, w, g) == [v |-> v, g |-> g]

\* Semaphore.release()
release(v, w, g) == wake_up_next(v + 1, w, g)

\* pc after the futures in g are done
WithGrants(p, g) == [j \in Ids |-> IF j \in g /\ p[j] = "waiting" THEN "granted" ELSE p[j]]

\* ------------------------------------------------------------ _execute
\* Lines 100-101, run by coroutine j right after acquire() returned with the
\* semaphore at (v, w, g): self._tasks[task_id] raises KeyError when cleanup
\* has removed the job, and the exception leaves the "async with" (release);
\* otherwise the job is marked Processing and the coroutine awaits the executor.
Enter(j, v, w, g) ==
  IF InTable(j)
  THEN /\ task' = [task EXCEPT ![j].status = PROCESSING]
       /\ pc' = [WithGrants(pc, g) EXCEPT ![j] = "running"]
       /\ _value' = v
       /\ _waiters' = w
       /\ last' = [op |-> "_execute", id |-> j, arg |-> 0, ret |-> "admitted"]
  ELSE LET s == release(v, w, g)
       IN  /\ task' = task
           /\ pc' = [WithGrants(pc, s.g) EXCEPT ![j] = "crashed"]
           /\ _value' = s.v
           /\ _waiters' = w
           /\ last' = [op |-> "_execute", id |-> j, arg |-> 0, ret |-> "KeyError"]

\* The coroutine created by submit runs for the first time: acquire() either
\* takes a free slot at once or queues the coroutine.
Start(j) ==
  /\ pc[j] = "scheduled"
  /\ IF ~locked
     THEN Enter(j, _value - 1, _waiters, Granted)
     ELSE /\ _waiters' = Append(_waiters, j)
          /\ pc' = [pc EXCEPT ![j] = "waiting"]
          /\ last' = [op |-> "_execute", id |-> j, arg |-> 0, ret |-> "queued"]
          /\ UNCHANGED <<task, _value>>
  /\ UNCHANGED <<_tasks, nextId, now>>
  /\ UNCHANGED outsideJobs

\* A waiter that was handed a slot runs again: the tail of acquire(), then
\* lines 100-101.
Resume(j) ==
  /\ pc[j] = "granted"
  /\ LET w == Without(_waiters, {j})
         g == Granted \ {j}
         s == IF _value > 0 THEN wake_up_next(_value, w, g) ELSE [v |-> _value, g |-> g]
     IN  Enter(j, s.v, w, s.g)
  /\ UNCHANGED <<_tasks, nextId, now>>
  /\ UNCHANGED outsideJobs

\* The executor returns r: lines 111-114, then the "async with" exits.
ExecReturn(j, r) ==
  /\ pc[j] = "running"
  /\ task' = [task EXCEPT ![j].status = COMPLETED,
                          ![j].result = r,
                          ![j].completed_at = now,
                          ![j].progress = 100]
  /\ LET s == release(_value, _waiters, Granted)
     IN  /\ _value' = s.v
         /\ pc' = [WithGrants(pc, s.g) EXCEPT ![j] = "done"]
  /\ last' = [op |-> "executor.return", id |-> j, arg |-> 0, ret |-> r]
  /\ UNCHANGED <<_tasks, nextId, _waiters, now>>
  /\ UNCHANGED outsideJobs

\* The executor raises an Exception whose str() is m: lines 118-121, then
\* the "async with" exits.
ExecRaise(j, m) ==
  /\ pc[j] = "running"
  /\ task' = [task EXCEPT ![j].status = FAILED,
                          ![j].error = m,
                          ![j].completed_at = now]
  /\ LET s == release(_value, _waiters, Granted)
     IN  /\ _value' = s.v
         /\ pc' = [WithGrants(pc, s.g) EXCEPT ![j] = "done"]
  /\ last' = [op |-> "executor.raise", id |-> j, arg |-> 0, ret |-> m]
  /\ UNCHANGED <<_tasks, nextId, _waiters, now>>
  /\ UNCHANGED outsideJobs

\* ------------------------------------------------------------ get_status
\* faulty variant of get_status: jobs that have not finished are reported
\* as not found
get_status_finished_only(id) ==
  IF ~(id \in Range(_tasks)) \/ task[id].completed_at = NoTime THEN [found |-> FALSE]
  ELSE [found |-> TRUE,
        task_id |-> id,
        status |-> task[id].status,
        progress |-> task[id].progress,
        completed_at |-> task[id].completed_at,
        result |-> IF task[id].status = COMPLETED THEN task[id].result ELSE None,
        error |-> task[id].error]

\* The snapshot built by get_status (lines 138-147); NotFound for line 136.
NotFound == [found |-> FALSE]

get_status(id) ==
  IF ~InTable(id) THEN NotFound
  ELSE [found |-> TRUE,
        task_id |-> id,
        status |-> task[id].status,
        progress |-> task[id].progress,
        completed_at |-> task[id].completed_at,
        result |-> IF task[id].status = COMPLETED THEN task[id].result ELSE None,
        error |-> task[id].error]

\* ------------------------------------------------------------ update_progress
\* faulty variant of clamp: the lower limit is forgotten
clamp_upper_only(p) == Min(p, 100)

\* min(max(progress, 0.0), 100.0)
clamp(p) == Min(Max(p, 0), 100)

UpdateProgress(id, p) ==
  /\ IF ~InTable(id)
     THEN /\ task' = task
          /\ last' = [op |-> "update_progress", id |-> id, arg |-> p, ret |-> FALSE]
     ELSE /\ task' = [task EXCEPT ![id].progress = clamp(p)]
          /\ last' = [op |-> "update_progress", id |-> id, arg |-> p, ret |-> TRUE]
  /\ UNCHANGED <<_tasks, nextId, pc, _value, _waiters, now>>
  /\ UNCHANGED outsideJobs

\* ------------------------------------------------------------ cancel_task
\* faulty variant of Cancellable: the status test of line 178 is forgotten
Cancellable_any_status(id) == InTable(id)

\* line 178 negated: the job is known and still Pending
Cancellable(id) == InTable(id) /\ task[id].status = PENDING

CancelTask(id) ==
  /\ IF ~Cancellable(id)
     THEN /\ task' = task
          /\ last' = [op |-> "cancel_task", id |-> id, arg |-> 0, ret |-> FALSE]
     ELSE /\ task' = [task EXCEPT ![id].status = FAILED,
                                  ![id].error = CancelledMsg,
                                  ![id].completed_at = now]
          /\ last' = [op |-> "cancel_task", id |-> id, arg |-> 0, ret |-> TRUE]
  /\ UNCHANGED <<_tasks, nextId, pc, _value, _waiters, now>>
  /\ UNCHANGED outsideJobs

\* ------------------------------------------------------------ POST /tasks/{id}/cancel
\* routers/tasks.py lines 96-138: get_status, then cancel_task; neither of the
\* two coroutines suspends, so the handler is one step.  The response is the
\* status code.
CancelEndpoint(id) ==
  /\ IF get_status(id) = NotFound
     THEN /\ task' = task
          /\ last' = [op |-> "POST cancel", id |-> id, arg |-> 0, ret |-> 404]
     ELSE IF ~Cancellable(id)
     THEN /\ task' = task
          /\ last' = [op |-> "POST cancel", id |-> id, arg |-> 0, ret |-> 400]
     ELSE /\ task' = [task EXCEPT ![id].status = FAILED,
                                  ![id].error = CancelledMsg,
                                  ![id].completed_at = now]
          /\ last' = [op |-> "POST cancel", id |-> id, arg |-> 0, ret |-> 200]
  /\ UNCHANGED <<_tasks, nextId, pc, _value, _waiters, now>>
  /\ UNCHANGED outsideJobs

\* ------------------------------------------------------------ cleanup_old_tasks
\* lines 200-204: the ids whose completed_at is set and older than max_age_hours
to_remove(max_age_hours) ==
  {id \in Range(_tasks) :
     /\ task[id].completed_at # NoTime
     /\ now - task[id].completed_at > max_age_hours}

CleanupOldTasks(max_age_hours) ==
  /\ _tasks' = Without(_tasks, to_remove(max_age_hours))
  /\ last' = [op |-> "cleanup_old_tasks", id |-> 0, arg |-> max_age_hours,
              ret |-> Cardinality(to_remove(max_age_hours))]
  /\ UNCHANGED <<task, nextId, pc, _value, _waiters, now>>
  /\ UNCHANGED outsideJobs

\* ------------------------------------------------------------ stats
\* The stats property of the manager (lines 242-253), which
\* GET /tasks/stats/summary returns as it is (routers/tasks.py lines 146-154).
manager_stats ==
  [total_tasks |-> Len(_tasks),
   by_status |-> [st \in TaskStatus |->
                    Cardinality({i \in 1..Len(_tasks) : task[_tasks[i]].status = st})],
   max_concurrent |-> _value]

\* ------------------------------------------------------------ the clock
Tick ==
  /\ now < MaxTime
  /\ now' = now + 1
  /\ last' = [op |-> "tick", id |-> 0, arg |-> 0, ret |-> None]
  /\ UNCHANGED <<_tasks, task, nextId, pc, _value, _waiters>>
  /\ UNCHANGED outsideJobs

Next ==
  \/ Submit
  \/ \E j \in Ids : Start(j)
  \/ \E j \in Ids : Resume(j)
  \/ \E j \in Ids, r \in Results : ExecReturn(j, r)
  \/ \E j \in Ids, m \in Messages : ExecRaise(j, m)
  \/ \E id \in Ids, p \in ProgressInputs : UpdateProgress(id, p)
  \/ \E id \in Ids : CancelTask(id)
  \/ \E h \in MaxAgeInputs : CleanupOldTasks(h)
  \/ Tick

Spec == Init /\ [][Next]_vars

\* The event loop runs every coroutine that is ready, and (the assumption of
\* the liveness claims) every executor returns or raises.
Fairness ==
  \A j \in Ids :
    /\ WF_vars(Start(j))
    /\ WF_vars(Resume(j))
    /\ WF_vars((\E r \in Results : ExecReturn(j, r)) \/ (\E m \in Messages : ExecRaise(j, m)))

FairSpec == Spec /\ Fairness

\* The life cycle of the jobs alone: every operation but update_progress,
\* which writes only the progress field, a field no other operation reads.
NextLifecycle ==
  \/ Submit
  \/ \E j \in Ids : Start(j)
  \/ \E j \in Ids : Resume(j)
  \/ \E j \in Ids, r \in Results : ExecReturn(j, r)
  \/ \E j \in Ids, m \in Messages : ExecRaise(j, m)
  \/ \E id \in Ids : CancelTask(id)
  \/ \E h \in MaxAgeInputs : CleanupOldTasks(h)
  \/ Tick

LifecycleSpec == Init /\ [][NextLifecycle]_vars

FairLifecycleSpec == LifecycleSpec /\ Fairness

\* The life cycle of the jobs driven through the cancel endpoint.
NextEndpoint ==
  \/ Submit
  \/ \E j \in Ids : Start(j)
  \/ \E j \in Ids : Resume(j)
  \/ \E j \in Ids, r \in Results : ExecReturn(j, r)
  \/ \E j \in Ids, m \in Messages : ExecRaise(j, m)
  \/ \E id \in Ids : CancelEndpoint(id)
  \/ \E h \in MaxAgeInputs : CleanupOldTasks(h)
  \/ Tick

EndpointSpec == Init /\ [][NextEndpoint]_vars

\* ------------------------------------------------------------ vocabulary of the claims
Born == {j \in Ids : task[j].status # "unborn"}
Processing == {j \in Ids : task[j].status = PROCESSING}
Running == {j \in Ids : pc[j] = "running"}
IsTerminal(j) == task[j].status \in Terminal

\* ------------------------------------------------------------ C1
\* C1: whatever the interleaving of submit, admission, executor outcome,
\* cancel_task and cleanup_old_tasks, at most max_concurrent jobs are
\* Processing.
C1_ProcessingBounded == Cardinality(Processing) <= max_concurrent

\* the gate is full and another job is queued behind it
C1_Witness ==
  /\ Cardinality(Processing) = max_concurrent
  /\ \E j \in Ids : pc[j] = "waiting" /\ task[j].status = PENDING

\* ------------------------------------------------------------ C2
\* C2: under fair scheduling and terminating executors every submitted job
\* eventually is Completed or Failed, and once it is terminal it never leaves
\* the terminal states (so it cannot become terminal a second time), also
\* when it was cancelled while Pending.
C2_TerminalExactlyOnce ==
  /\ \A j \in Ids : (j \in Born) ~> IsTerminal(j)
  /\ [][\A j \in Ids : IsTerminal(j) => IsTerminal(j)']_vars

\* ------------------------------------------------------------ C3
\* C3: the only status changes of a job are Pending->Processing,
\* Processing->Completed, Processing->Failed and, by cancel_task,
\* Pending->Failed.
LegalTransitions ==
  {<<PENDING, PROCESSING>>, <<PROCESSING, COMPLETED>>,
   <<PROCESSING, FAILED>>, <<PENDING, FAILED>>}

C3_OnlyLegalTransitions ==
  [][\A j \in Born :
       task'[j].status # task[j].status =>
         /\ <<task[j].status, task'[j].status>> \in LegalTransitions
         /\ (task[j].status = PENDING /\ task'[j].status = FAILED
               => last'.op = "cancel_task")]_vars

\* ------------------------------------------------------------ C4
\* C4: once a job is Completed or Failed, none of its status, result, error,
\* completed_at and progress is changed by a later step.
C4_TerminalImmutable ==
  [][\A j \in Ids : IsTerminal(j) => task'[j] = task[j]]_vars

\* ------------------------------------------------------------ C5
\* C5: cancel_task(id) returns true exactly when the job is in the table and
\* Pending; it then marks the job Failed with error 'Cancelled by user' and
\* sets completed_at; otherwise it returns false and changes no job.
C5_CancelOnlyPending ==
  [][last'.op = "cancel_task" =>
       LET id == last'.id
       IN  /\ last'.ret = (InTable(id) /\ task[id].status = PENDING)
           /\ last'.ret =>
                task' = [task EXCEPT ![id].status = FAILED,
                                     ![id].error = CancelledMsg,
                                     ![id].completed_at = now]
           /\ ~last'.ret => task' = task
           /\ UNCHANGED <<_tasks, pc, _value, _waiters>>]_vars

\* a cancel_task that succeeded
C5_Witness ==
  /\ last.op = "cancel_task"
  /\ last.ret = TRUE
  /\ task[last.id].status = FAILED
  /\ task[last.id].error = CancelledMsg

\* ------------------------------------------------------------ C6
\* C6: submit records the job as Pending and returns its id without touching
\* the semaphore; a job becomes Processing only in the step in which its
\* execution gets through acquire(), which needs a slot not used by a running
\* execution; while max_concurrent jobs are Processing no job becomes
\* Processing.
C6_PendingUntilAdmitted ==
  [][/\ last'.op = "submit" =>
          /\ last'.ret = last'.id
          /\ ~InTable(last'.id)
          /\ _tasks' = Append(_tasks, last'.id)
          /\ task'[last'.id].status = PENDING
          /\ UNCHANGED <<_value, _waiters>>
     /\ \A j \in Ids :
          task'[j].status = PROCESSING /\ task[j].status # PROCESSING =>
            /\ last' = [op |-> "_execute", id |-> j, arg |-> 0, ret |-> "admitted"]
            /\ pc[j] \in {"scheduled", "granted"}
            /\ pc'[j] = "running"
            /\ Cardinality(Running) < max_concurrent
            /\ Cardinality(Processing) < max_concurrent]_vars

\* submit has just returned while every slot is taken by a Processing job
C6_Witness ==
  /\ last.op = "submit"
  /\ task[last.id].status = PENDING
  /\ Cardinality(Processing) = max_concurrent
  /\ _value = 0

\* ------------------------------------------------------------ C7
\* C7: when the executor of a job raises, the job becomes Failed with the
\* exception's message as error and completed_at set, its coroutine ends
\* normally, its slot is released (the counter goes up or the slot passes to
\* the first waiter), no other job is touched, and every Pending job still
\* reaches a terminal state.
C7_FailureContained ==
  /\ [][last'.op = "executor.raise" =>
          LET j == last'.id
          IN  /\ pc[j] = "running"
              /\ last'.ret \in Messages
              /\ task' = [task EXCEPT ![j].status = FAILED,
                                      ![j].error = last'.ret,
                                      ![j].completed_at = now]
              /\ pc'[j] = "done"
              /\ \/ _value' = _value + 1 /\ \A k \in Ids \ {j} : pc'[k] = pc[k]
                 \/ /\ _value' = _value
                    /\ \E k \in Ids \ {j} : pc[k] = "waiting" /\ pc'[k] = "granted"]_vars
  /\ \A j \in Ids : (task[j].status = PENDING) ~> IsTerminal(j)

\* an executor has just raised while another job was still Pending
C7_Witness ==
  /\ last.op = "executor.raise"
  /\ task[last.id].status = FAILED
  /\ task[last.id].error = last.ret
  /\ \E k \in Ids : task[k].status = PENDING

\* ------------------------------------------------------------ C8
\* C8: in every state and in every get_status snapshot a job has a result
\* only if it is Completed and a non-empty error only if it is Failed.
C8_ResultAndErrorMatchStatus ==
  \A j \in Born :
    /\ task[j].result # None => task[j].status = COMPLETED
    /\ task[j].error \notin {None, ""} => task[j].status = FAILED
    /\ InTable(j) =>
         /\ get_status(j).result # None => get_status(j).status = COMPLETED
         /\ get_status(j).error \notin {None, ""} => get_status(j).status = FAILED

\* ------------------------------------------------------------ C9
\* C9: while a job is Processing its progress never decreases.
C9_ProgressMonotone ==
  [][\A j \in Ids :
       task[j].status = PROCESSING /\ task'[j].status = PROCESSING
         => task'[j].progress >= task[j].progress]_vars

\* ------------------------------------------------------------ C10
\* C10: update_progress(id, p) on a job of the table stores p saturated to
\* [0,100] and changes nothing else; on an unknown id it returns False and
\* changes nothing; so every progress is within [0,100].
Saturated(p) == IF p < 0 THEN 0 ELSE IF p > 100 THEN 100 ELSE p

C10_ProgressClamped ==
  /\ [](\A j \in Ids : task[j].progress >= 0 /\ task[j].progress <= 100)
  /\ [][last'.op = "update_progress" =>
          LET id == last'.id
          IN  /\ last'.ret = InTable(id)
              /\ InTable(id) => task' = [task EXCEPT ![id].progress = Saturated(last'.arg)]
              /\ ~InTable(id) => task' = task
              /\ UNCHANGED <<_tasks, nextId, pc, _value, _waiters, now>>]_vars

\* update_progress(id, 130) has just stored 100 on a Processing job
C10_Witness ==
  /\ last.op = "update_progress"
  /\ last.arg > 100
  /\ last.ret = TRUE
  /\ task[last.id].progress = 100
  /\ task[last.id].status = PROCESSING

\* ------------------------------------------------------------ C11
\* C11: cleanup_old_tasks(max_age) removes exactly the jobs of the table that
\* are Completed or Failed and whose completed_at is older than max_age, keeps
\* the order of the others, returns the number removed, and never removes a
\* Pending or Processing job.
C11_CleanupRemovesOldTerminal ==
  [][last'.op = "cleanup_old_tasks" =>
       LET gone == Range(_tasks) \ Range(_tasks')
       IN  /\ gone = {id \in Range(_tasks) :
                        /\ task[id].status \in Terminal
                        /\ task[id].completed_at # NoTime
                        /\ now - task[id].completed_at > last'.arg}
           /\ _tasks' = Without(_tasks, gone)
           /\ last'.ret = Cardinality(gone)
           /\ \A id \in gone : task[id].status \notin {PENDING, PROCESSING}
           /\ task' = task]_vars

\* ------------------------------------------------------------ C12
\* C12: get_status(id) is not-found exactly for the ids submit has not handed
\* out and for the jobs cleanup_old_tasks has removed (a job enters the table
\* only by submit, with a fresh id, and leaves it only by cleanup_old_tasks);
\* for every other id the snapshot carries the job's current fields.
C12_StatusOfKnownJobs ==
  /\ [](\A id \in Ids :
          /\ get_status(id).found = InTable(id)
          /\ id >= nextId => get_status(id) = NotFound
          /\ InTable(id) =>
                /\ get_status(id).task_id = id
                /\ get_status(id).status = task[id].status
                /\ get_status(id).progress = task[id].progress
                /\ get_status(id).completed_at = task[id].completed_at
                /\ get_status(id).result = task[id].result
                /\ get_status(id).error = task[id].error)
  /\ [][\A id \in Ids :
          /\ (~InTable(id) /\ InTable(id)') => last'.op = "submit" /\ last'.ret = id /\ id = nextId
          /\ (InTable(id) /\ ~InTable(id)') => last'.op = "cleanup_old_tasks"]_vars

\* one job was removed by cleanup_old_tasks, another is still in the table
C12_Witness ==
  /\ \E id \in Ids : id < nextId /\ get_status(id) = NotFound
  /\ \E id \in Ids : get_status(id).found /\ get_status(id).status = COMPLETED

\* ========================================================================
\* MemoryCache and AudioCacheService (backend/services/cache_service.py).
\* Every MemoryCache method runs under self._lock, and the AudioCacheService
\* methods never await, so each call is one step.  clast records the call:
\* its name, key, value and ttl arguments, the value returned and whether
\* an exception left the call.
\* ========================================================================
max_size == 3           \* constructor argument: capacity of the MemoryCache
default_ttl == 2        \* constructor argument: ttl of a set() that gives none
MaxClock == 2           \* the cache clock runs over 0..MaxClock (seconds)
MaxCacheOps == 5        \* number of cache calls explored
MaxAgingOps == 2        \* number of cache calls explored where entries age

jobVars == <<_tasks, task, nextId, pc, _value, _waiters, now, last>>

\* the variables of the components other than the cache
outsideCache == <<jobVars, hookVars>>

KeysOf(c) == {c[i].key : i \in 1..Len(c)}

\* index of key k in c, 0 when it is not stored
IndexOf(c, k) ==
  IF k \in KeysOf(c) THEN CHOOSE i \in 1..Len(c) : c[i].key = k ELSE 0

\* c without the entry of key k (del self._cache[key])
Delete(c, k) == SelectSeq(c, LAMBDA e : e.key # k)

\* OrderedDict.move_to_end(key)
move_to_end(c, k) == Delete(c, k) \o <<c[IndexOf(c, k)]>>

\* faulty variant of Expired: an entry expires as soon as its age reaches its ttl
Expired_at_ttl(e) == clock - e.created_at >= e.ttl

\* line 59: the entry is past its ttl
Expired(e) == clock - e.created_at > e.ttl

\* faulty variant of EvictToFit: nothing is evicted
EvictToFit_never(c) == c

\* lines 72-73: popitem(last=False) while the store is at its capacity
RECURSIVE EvictToFit(_)
EvictToFit(c) == IF Len(c) >= max_size /\ c # <<>> THEN EvictToFit(Tail(c)) ELSE c

\* lines 75-79: self._cache[key] = CacheEntry(...): a stored key keeps its
\* place in the OrderedDict, a new key goes to the end
Store(c, e) ==
  IF e.key \in KeysOf(c)
  THEN [i \in 1..Len(c) |-> IF c[i].key = e.key THEN e ELSE c[i]]
  ELSE Append(c, e)

\* the history of accesses: k becomes the most recently accessed key
Touch(r, k) == SelectSeq(r, LAMBDA x : x # k) \o <<k>>
Forget(r, gone) == SelectSeq(r, LAMBDA x : x \notin gone)

\* the ttl arguments on record once the store is c: k was just stored with ttl
GivenAfterSet(c, k, ttl) ==
  [x \in Keys |-> IF x = k THEN ttl ELSE IF x \in KeysOf(c) THEN given[x] ELSE NoTtl]

\* the ttl arguments on record once the store is c
GivenAfter(c) == [x \in Keys |-> IF x \in KeysOf(c) THEN given[x] ELSE NoTtl]

\* ------------------------------------------------------------ MemoryCache.get
\* faulty variant of get: an expired entry is reported as a miss and kept
get_keeps_expired(k) ==
  LET i == IndexOf(_cache, k)
  IN  IF i = 0 \/ Expired(_cache[i])
      THEN [cache |-> _cache, recency |-> recency, hit |-> FALSE, ret |-> None]
      ELSE [cache |-> move_to_end([_cache EXCEPT ![i].hits = @ + 1], k),
            recency |-> Touch(recency, k), hit |-> TRUE, ret |-> _cache[i].value]

\* the store, the access history, the returned value and whether it is a hit
get(k) ==
  LET i == IndexOf(_cache, k)
  IN  IF i = 0
      THEN [cache |-> _cache, recency |-> recency, hit |-> FALSE, ret |-> None]
      ELSE IF Expired(_cache[i])
      THEN [cache |-> Delete(_cache, k), recency |-> Forget(recency, {k}),
            hit |-> FALSE, ret |-> None]
      ELSE [cache |-> move_to_end([_cache EXCEPT ![i].hits = @ + 1], k),
            recency |-> Touch(recency, k), hit |-> TRUE, ret |-> _cache[i].value]

MemGet(k) ==
  /\ cops < MaxCacheOps
  /\ cops' = cops + 1
  /\ _cache' = get(k).cache
  /\ recency' = get(k).recency
  /\ get_hits' = get_hits + (IF get(k).hit THEN 1 ELSE 0)
  /\ given' = GivenAfter(get(k).cache)
  /\ clast' = Call("get", k, None, NoTtl, get(k).ret)
  /\ UNCHANGED <<clock, disk>>
  /\ UNCHANGED outsideCache

\* ------------------------------------------------------------ MemoryCache.set
\* the entry built at lines 75-79; "ttl or self.default_ttl"
NewEntry(k, v, ttl) ==
  [key |-> k, value |-> v, created_at |-> clock,
   ttl |-> IF ttl = NoTtl \/ ttl = 0 THEN default_ttl ELSE ttl, hits |-> 0]

\* the store and the access history after set(k, v, ttl)
set(k, v, ttl) ==
  LET kept == EvictToFit(_cache)
  IN  [cache |-> Store(kept, NewEntry(k, v, ttl)),
       recency |-> Touch(Forget(recency, KeysOf(_cache) \ KeysOf(kept)), k)]

MemSet(k, v, ttl) ==
  /\ cops < MaxCacheOps
  /\ cops' = cops + 1
  /\ _cache' = set(k, v, ttl).cache
  /\ recency' = set(k, v, ttl).recency
  /\ given' = GivenAfterSet(set(k, v, ttl).cache, k, ttl)
  /\ clast' = Call("set", k, v, ttl, None)
  /\ UNCHANGED <<clock, disk, get_hits>>
  /\ UNCHANGED outsideCache

\* ------------------------------------------------------------ MemoryCache.delete
MemDelete(k) ==
  /\ cops < MaxCacheOps
  /\ cops' = cops + 1
  /\ _cache' = Delete(_cache, k)
  /\ recency' = Forget(recency, {k})
  /\ given' = GivenAfter(Delete(_cache, k))
  /\ clast' = Call("delete", k, None, NoTtl, IF k \in KeysOf(_cache) THEN "True" ELSE "False")
  /\ UNCHANGED <<clock, disk, get_hits>>
  /\ UNCHANGED outsideCache

\* ------------------------------------------------------------ MemoryCache.clear
MemClear ==
  /\ cops < MaxCacheOps
  /\ cops' = cops + 1
  /\ _cache' = <<>>
  /\ recency' = <<>>
  /\ given' = GivenAfter(<<>>)
  /\ clast' = Call("clear", None, None, NoTtl, None)
  /\ UNCHANGED <<clock, disk, get_hits>>
  /\ UNCHANGED outsideCache

\* ------------------------------------------------------------ MemoryCache.stats
RECURSIVE SumHits(_)
SumHits(c) == IF c = <<>> THEN 0 ELSE Head(c).hits + SumHits(Tail(c))

stats == [size |-> Len(_cache), max_size |-> max_size, total_hits |-> SumHits(_cache)]

\* ------------------------------------------------------------ the cache clock
CacheTick ==
  /\ clock < MaxClock
  /\ clock' = clock + 1
  /\ clast' = Call("tick", None, None, NoTtl, None)
  /\ UNCHANGED <<_cache, disk, cops, recency, get_hits, given>>
  /\ UNCHANGED outsideCache

\* ------------------------------------------------------------ AudioCacheService
\* The key k stands for the md5 key that _generate_key derives from the text,
\* the hash of the reference file and the parameters.  A fault is an exception
\* raised inside the try block: "hash" by _hash_file (the reference file cannot
\* be read), "disk" by cached_file.exists().

\* faulty variant of Caught: the handler lets the exception leave the call
Caught_reraised(c, fault) == [c EXCEPT !.fault = fault, !.raised = TRUE]

\* lines 160-162 and 179-180: except Exception: log, fall through to None
Caught(c, fault) == [c EXCEPT !.fault = fault, !.ret = None, !.raised = FALSE]

\* line 157: the answer for a file of the cache directory
DiskResult(k) == "/outputs/cache/" \o k \o ".wav"

GetCachedAudio(k, fault) ==
  /\ cops < MaxCacheOps
  /\ cops' = cops + 1
  /\ IF fault = "hash"
     THEN /\ clast' = Caught(Call("get_cached_audio", k, None, NoTtl, None), "hash")
          /\ UNCHANGED <<_cache, recency, get_hits, given>>
     ELSE /\ _cache' = get(k).cache
          /\ recency' = get(k).recency
          /\ get_hits' = get_hits + (IF get(k).hit THEN 1 ELSE 0)
          /\ given' = GivenAfter(get(k).cache)
          /\ clast' =
               [(IF get(k).ret # None
                 THEN Call("get_cached_audio", k, None, NoTtl, get(k).ret)
                 ELSE IF fault = "disk"
                 THEN Caught(Call("get_cached_audio", k, None, NoTtl, None), "disk")
                 ELSE IF k \in disk
                 THEN Call("get_cached_audio", k, None, NoTtl, DiskResult(k))
                 ELSE Call("get_cached_audio", k, None, NoTtl, None))
                EXCEPT !.dropped = Len(get(k).cache) < Len(_cache)]
  /\ UNCHANGED <<clock, disk>>
  /\ UNCHANGED outsideCache

CacheAudio(k, v, ttl, fault) ==
  /\ cops < MaxCacheOps
  /\ cops' = cops + 1
  /\ IF fault = "hash"
     THEN /\ clast' = Caught(Call("cache_audio", k, v, ttl, None), "hash")
          /\ UNCHANGED <<_cache, recency, given>>
     ELSE \* line 177: ttl or settings.cache_ttl_seconds
          LET passed == IF ttl = NoTtl \/ ttl = 0 THEN default_ttl ELSE ttl
          IN  /\ _cache' = set(k, v, passed).cache
              /\ recency' = set(k, v, passed).recency
              /\ given' = GivenAfterSet(set(k, v, passed).cache, k, passed)
              /\ clast' = Call("cache_audio", k, v, ttl, None)
  /\ UNCHANGED <<clock, disk, get_hits>>
  /\ UNCHANGED outsideCache

\* clear_cache: the memory store and the cache directory are emptied
ClearCache ==
  /\ cops < MaxCacheOps
  /\ cops' = cops + 1
  /\ _cache' = <<>>
  /\ recency' = <<>>
  /\ given' = GivenAfter(<<>>)
  /\ disk' = {}
  /\ clast' = Call("clear_cache", None, None, NoTtl, "cleared")
  /\ UNCHANGED <<clock, get_hits>>
  /\ UNCHANGED outsideCache

\* a file <key>.wav appears in the cache directory; the service itself never
\* writes one
DiskWrite(k) ==
  /\ k \notin disk
  /\ disk' = disk \cup {k}
  /\ clast' = Call("disk_write", k, None, NoTtl, None)
  /\ UNCHANGED <<_cache, clock, cops, recency, get_hits, given>>
  /\ UNCHANGED outsideCache

\* the MemoryCache alone, on four keys whose entries do not age
NextLru ==
  \/ \E k \in Keys : MemGet(k)
  \/ \E k \in Keys : MemSet(k, "v1", NoTtl)
  \/ \E k \in Keys : MemDelete(k)
  \/ MemClear

LruSpec == Init /\ [][NextLru]_vars

\* the MemoryCache and the AudioCacheService over it, on two keys, with time
NextCache ==
  \/ \E k \in TtlKeys : cops < MaxAgingOps /\ MemGet(k)
  \/ \E k \in TtlKeys, v \in Values, ttl \in TtlInputs :
       cops < MaxAgingOps /\ MemSet(k, v, ttl)
  \/ \E k \in TtlKeys : cops < MaxAgingOps /\ MemDelete(k)
  \/ cops < MaxAgingOps /\ MemClear
  \/ cops < MaxAgingOps /\ CacheTick
  \/ \E k \in TtlKeys, fault \in Faults : cops < MaxAgingOps /\ GetCachedAudio(k, fault)
  \/ \E k \in TtlKeys, ttl \in {NoTtl, 1}, fault \in Faults \ {"disk"} :
       cops < MaxAgingOps /\ CacheAudio(k, "v2", ttl, fault)
  \/ cops < MaxAgingOps /\ ClearCache
  \/ \E k \in TtlKeys : cops < MaxAgingOps /\ DiskWrite(k)

CacheSpec == Init /\ [][NextCache]_vars

\* ------------------------------------------------------------ cache claims
EntryOf(c, k) == c[IndexOf(c, k)]

\* the ttl that a set(k, v, ttl) asks for: its argument, the default when it has none
AskedTtl(ttl) == IF ttl = NoTtl THEN default_ttl ELSE ttl

\* C13: when set() inserts a key that is not stored while the store holds
\* max_size entries, exactly one key leaves the store, and it is the key whose
\* last access (a set of that key or a get that hit it) is the oldest; the new
\* key is stored with the others.
C13_EvictsLeastRecentlyUsed ==
  [][(/\ clast'.op = "set"
      /\ clast'.key \notin KeysOf(_cache)
      /\ Len(_cache) = max_size)
     => (/\ KeysOf(_cache) \ KeysOf(_cache') = {Head(recency)}
         /\ KeysOf(_cache') = (KeysOf(_cache) \ {Head(recency)}) \cup {clast'.key})]_vars

\* C14: the store never holds more than max_size entries.
C14_SizeBounded == Len(_cache) <= max_size

\* a set() has just stored a key in a store that was full
C14_Witness ==
  /\ clast.op = "set"
  /\ Len(_cache) = max_size
  /\ cops > max_size
  /\ Cardinality(KeysOf(_cache)) = max_size

\* C15: a set(k, v, ttl) stores v with the present time; no other call changes
\* the value or the creation time of a stored entry; get(k) on a stored key
\* returns its value while now - created_at <= ttl, ttl being the one the set
\* asked for, and otherwise misses and removes the entry, whatever its hit
\* count; get(k) on a key that is not stored misses.
C15_GetHonoursTtl ==
  [][/\ clast'.op = "set"
        => /\ clast'.key \in KeysOf(_cache')
           /\ EntryOf(_cache', clast'.key).value = clast'.val
           /\ EntryOf(_cache', clast'.key).created_at = clock
     /\ clast'.op # "set" /\ clast'.op # "cache_audio"
        => \A k \in KeysOf(_cache) \cap KeysOf(_cache') :
             /\ EntryOf(_cache', k).value = EntryOf(_cache, k).value
             /\ EntryOf(_cache', k).created_at = EntryOf(_cache, k).created_at
     /\ clast'.op = "get"
        => LET k == clast'.key
           IN  IF k \notin KeysOf(_cache)
               THEN clast'.ret = None /\ _cache' = _cache
               ELSE IF clock - EntryOf(_cache, k).created_at <= AskedTtl(given[k])
               THEN clast'.ret = EntryOf(_cache, k).value /\ k \in KeysOf(_cache')
               ELSE clast'.ret = None /\ k \notin KeysOf(_cache')]_vars

\* C16: a get_cached_audio or cache_audio call in which a step fails lets no
\* exception out and returns None, and a failed cache_audio leaves the memory
\* store as it was.
C16_CacheIsAdvisory ==
  [][/\ clast'.op \in {"get_cached_audio", "cache_audio"} => ~clast'.raised
     /\ clast'.op \in {"get_cached_audio", "cache_audio"} /\ clast'.fault # "none"
        => clast'.ret = None
     /\ clast'.op = "cache_audio" /\ clast'.fault # "none" => _cache' = _cache]_vars

\* a cache_audio call has just failed over a store that holds an entry
C16_Witness ==
  /\ clast.op = "cache_audio"
  /\ clast.fault = "hash"
  /\ _cache # <<>>

\* C17: stats() reports the number of entries, the capacity, and as total_hits
\* the number of get calls that have returned a hit so far.
C17_StatsCumulativeHits ==
  /\ stats.size = Len(_cache)
  /\ stats.max_size = max_size
  /\ stats.total_hits = get_hits

\* ========================================================================
\* WebhookService (backend/services/webhook_service.py) and the router over
\* it (backend/routers/webhooks.py).  The synchronous methods are one step
\* each; send_webhook is a coroutine that is suspended while a POST is in
\* flight, while it sleeps between two attempts and while the HTTP client is
\* closed after the last failed attempt.
\* ========================================================================
outsideHooks == <<jobVars, cacheVars>>

StartsWith(str, prefix) ==
  Len(str) >= Len(prefix) /\ SubSeq(str, 1, Len(prefix)) = prefix

\* faulty variant of ValidUrl: any url passes
ValidUrl_any(url) == TRUE

\* line 112: url.startswith(("http://", "https://"))
ValidUrl(url) == StartsWith(url, "http://") \/ StartsWith(url, "https://")

\* lines 116-119: every event is a value of WebhookEvent
ValidEvents(events) == events \subseteq WebhookEvent

\* lines 121-128: a new WebhookConfig with the defaults of the dataclass
\* (created_at and metadata are left out: nothing reads them)
WebhookConfig(wid, uid, url, events, secret) ==
  [id |-> wid, user_id |-> uid, url |-> url, events |-> events, secret |-> secret,
   active |-> TRUE, last_triggered_at |-> NoTime, failure_count |-> 0]

\* ------------------------------------------------------------ register_webhook
RegisterWebhook(wid, uid, url, events, secret) ==
  /\ (ValidUrl(url) /\ ValidEvents(events)) => nextObj <= MaxRegs
  /\ hops < MaxHookOps
  /\ hops' = hops + 1
  /\ IF ~ValidUrl(url) \/ ~ValidEvents(events)
     THEN /\ hlast' = RegCall("register_webhook", wid, url, events, "ValueError")
          /\ UNCHANGED <<_webhooks, hook, nextObj>>
     ELSE /\ hook' = [hook EXCEPT ![nextObj] = WebhookConfig(wid, uid, url, events, secret)]
          /\ _webhooks' = [_webhooks EXCEPT ![wid] = nextObj]
          /\ nextObj' = nextObj + 1
          /\ hlast' = RegCall("register_webhook", wid, url, events, None)
  /\ UNCHANGED <<_delivery_history, send, nextSend, hnow, broadcast>>
  /\ UNCHANGED outsideHooks

\* ------------------------------------------------------------ POST /webhooks
\* WebhookCreate (routers/webhooks.py lines 30-45) admits only an http(s) url
\* and a non-empty events list, else the request ends with 422; the id is a
\* fresh uuid4; a ValueError of register_webhook becomes 400.
CreateWebhook(wid, uid, url, events, secret) ==
  /\ (ValidUrl(url) /\ ValidEvents(events)) => nextObj <= MaxRegs
  /\ hops < MaxHookOps
  /\ hops' = hops + 1
  /\ _webhooks[wid] = 0
  /\ \A o \in ObjIds : hook[o].id # wid
  /\ IF ~(StartsWith(url, "http://") \/ StartsWith(url, "https://")) \/ events = {}
     THEN /\ hlast' = RegCall("create_webhook", wid, url, events, "422")
          /\ UNCHANGED <<_webhooks, hook, nextObj>>
     ELSE IF ~ValidUrl(url) \/ ~ValidEvents(events)
     THEN /\ hlast' = RegCall("create_webhook", wid, url, events, "400")
          /\ UNCHANGED <<_webhooks, hook, nextObj>>
     ELSE /\ hook' = [hook EXCEPT ![nextObj] = WebhookConfig(wid, uid, url, events, secret)]
          /\ _webhooks' = [_webhooks EXCEPT ![wid] = nextObj]
          /\ nextObj' = nextObj + 1
          /\ hlast' = RegCall("create_webhook", wid, url, events, "201")
  /\ UNCHANGED <<_delivery_history, send, nextSend, hnow, broadcast>>
  /\ UNCHANGED outsideHooks

\* ------------------------------------------------------------ delete_webhook
DeleteWebhook(wid) ==
  /\ hops < MaxHookOps
  /\ hops' = hops + 1
  /\ _webhooks' = [_webhooks EXCEPT ![wid] = 0]
  /\ hlast' = HookCall("delete_webhook", wid, 0, IF _webhooks[wid] # 0 THEN "True" ELSE "False")
  /\ UNCHANGED <<hook, nextObj, _delivery_history, send, nextSend, hnow, broadcast>>
  /\ UNCHANGED outsideHooks

\* ------------------------------------------------------------ update_webhook
\* an optional argument replaces the field when it is not None
Updated(old, arg) == IF arg = {} THEN old ELSE CHOOSE x \in arg : TRUE

\* faulty variant of UpdateWebhook: switching a webhook on again also clears
\* its failure count
UpdateWebhook_resets_count(wid, url, events, secret, active) ==
  /\ hops < MaxHookOps
  /\ hops' = hops + 1
  /\ IF _webhooks[wid] = 0
     THEN /\ hlast' = HookCall("update_webhook", wid, 0, "NotFound")
          /\ UNCHANGED hook
     ELSE /\ hook' = [hook EXCEPT ![_webhooks[wid]] =
                        [@ EXCEPT !.url = Updated(@, url),
                                  !.events = Updated(@, events),
                                  !.secret = Updated(@, secret),
                                  !.active = Updated(@, active),
                                  !.failure_count = IF active = {TRUE} THEN 0 ELSE @]]
          /\ hlast' = HookCall("update_webhook", wid, 0, None)
  /\ UNCHANGED <<_webhooks, nextObj, _delivery_history, send, nextSend, hnow, broadcast>>
  /\ UNCHANGED outsideHooks

UpdateWebhook(wid, url, events, secret, active) ==
  /\ hops < MaxHookOps
  /\ hops' = hops + 1
  /\ IF _webhooks[wid] = 0
     THEN /\ hlast' = HookCall("update_webhook", wid, 0, "NotFound")
          /\ UNCHANGED hook
     ELSE /\ hook' = [hook EXCEPT ![_webhooks[wid]] =
                        [@ EXCEPT !.url = Updated(@, url),
                                  !.events = Updated(@, events),
                                  !.secret = Updated(@, secret),
                                  !.active = Updated(@, active)]]
          /\ hlast' = HookCall("update_webhook", wid, 0, None)
  /\ UNCHANGED <<_webhooks, nextObj, _delivery_history, send, nextSend, hnow, broadcast>>
  /\ UNCHANGED outsideHooks

\* ------------------------------------------------------------ send_webhook
\* lines 239-263: the three early returns; "" when the call goes on
FailFastOn(hk, wid, event) ==
  IF _webhooks[wid] = 0 THEN "Webhook nao encontrado"
  ELSE IF ~hk[_webhooks[wid]].active THEN "Webhook desativado"
  ELSE IF event \notin hk[_webhooks[wid]].events THEN "Evento nao configurado"
  ELSE ""

FailFast(wid, event) == FailFastOn(hook, wid, event)

\* faulty variant of Returned: the early return is also put into the history
Returned_recorded(h, r) == Append(h, r)

\* lines 242-263: an early return hands the result to the caller and records nothing
Returned(h, r) == h

\* lines 266-272: the envelope and its serialization by json.dumps
Payload(event, wid, data) ==
  ToString([event |-> event, timestamp |-> hnow, webhook_id |-> wid, data |-> data])

\* lines 214-220: HMAC-SHA256 of the payload keyed by the secret, as a term
_generate_signature(payload, secret) ==
  [prefix |-> "sha256=", key |-> secret, message |-> payload]

\* faulty variant of Signed: every request is signed
Signed_always(secret) == TRUE

\* line 283: if webhook.secret
Signed(secret) == secret # None /\ secret # ""

\* lines 275-285
Headers(event, wid, payload, secret) ==
  LET base == [h \in {"Content-Type", "User-Agent", "X-Webhook-Event", "X-Webhook-Id"} |->
                 CASE h = "Content-Type" -> "application/json"
                   [] h = "User-Agent" -> "VoiceCloner-Webhook/1.0"
                   [] h = "X-Webhook-Event" -> event
                   [] h = "X-Webhook-Id" -> wid]
  IN  IF Signed(secret)
      THEN ("X-Webhook-Signature" :> _generate_signature(payload, secret)) @@ base
      ELSE base

\* lines 297-301: what one client.post of call c is given
RequestOn(hk, c) == [url |-> hk[c.obj].url, content |-> c.body, headers |-> c.headers]

Request(c) == RequestOn(hook, c)

\* lines 242-263: a call that has returned early
EarlyCall(hk, wid, event) ==
  [Idle EXCEPT !.pc = "done", !.wid = wid, !.event = event, !.obj = _webhooks[wid],
               !.result = DeliveryResult(FALSE, wid, event, 0,
                                         FailFastOn(hk, wid, event), 1)]

\* lines 266-301: a call whose first POST is in flight
FirstPost(hk, wid, event, data) ==
  LET c == [Idle EXCEPT
              !.pc = "posting", !.wid = wid, !.event = event,
              !.obj = _webhooks[wid], !.attempt = 0,
              !.attempts = 1, !.posted = 1,
              !.body = Payload(event, wid, data),
              !.headers = Headers(event, wid, Payload(event, wid, data),
                                  hk[_webhooks[wid]].secret)]
  IN  [c EXCEPT !.requests = <<RequestOn(hk, c)>>]

\* lines 239-301: the call up to its first POST, which is then in flight
SendWebhook(s, wid, event, data) ==
  /\ s = nextSend
  /\ nextSend' = nextSend + 1
  /\ IF FailFast(wid, event) # ""
     THEN /\ send' = [send EXCEPT ![s] = EarlyCall(hook, wid, event)]
          /\ _delivery_history' =
               Returned(_delivery_history, EarlyCall(hook, wid, event).result)
     ELSE /\ send' = [send EXCEPT ![s] = FirstPost(hook, wid, event, data)]
          /\ UNCHANGED _delivery_history
  /\ hlast' = HookCall("send_webhook", wid, s, None)
  /\ UNCHANGED <<_webhooks, hook, nextObj, hnow, hops, broadcast>>
  /\ UNCHANGED outsideHooks

\* faulty variant of Eligible: the events of the webhook are not looked at
Eligible_any_event(w, event) == w.active

\* line 398
Eligible(w, event) == w.active /\ event \in w.events

\* lines 397-402: the for loop of broadcast call b from its next webhook up to
\* its next await (the first POST of a send_webhook call) or to its return.
\* hk are the WebhookConfig objects, sd the send_webhook calls, ns the number
\* of the next one.
RECURSIVE Loop(_, _, _, _)
Loop(hk, b, sd, ns) ==
  IF b.todo = <<>>
  THEN [broadcast |-> [b EXCEPT !.pc = "done", !.cur = 0], send |-> sd, nextSend |-> ns]
  ELSE LET o == Head(b.todo)
           w == hk[o]
           rest == [b EXCEPT !.todo = Tail(@)]
       IN  IF ~Eligible(w, b.event)
           THEN Loop(hk, [rest EXCEPT !.turns = Append(@, [obj |-> o, seen |-> w, s |-> 0])],
                     sd, ns)
           ELSE IF ns \notin Slots
           THEN [broadcast |-> [b EXCEPT !.pc = "stuck"], send |-> sd, nextSend |-> ns]
           ELSE IF FailFastOn(hk, w.id, b.event) # ""
           THEN Loop(hk,
                     [rest EXCEPT !.turns = Append(@, [obj |-> o, seen |-> w, s |-> ns]),
                                  !.results = Append(@, EarlyCall(hk, w.id, b.event).result)],
                     [sd EXCEPT ![ns] = EarlyCall(hk, w.id, b.event)],
                     ns + 1)
           ELSE [broadcast |->
                   [rest EXCEPT !.pc = "awaiting", !.cur = ns,
                                !.turns = Append(@, [obj |-> o, seen |-> w, s |-> ns])],
                 send |-> [sd EXCEPT ![ns] = FirstPost(hk, w.id, b.event, b.data)],
                 nextSend |-> ns + 1]

\* lines 143-148: the webhooks of the user, in the order in which the objects
\* were made (the order of the dict, as long as no id is registered twice)
get_user_webhooks(user_id) ==
  LET RECURSIVE Upto(_)
      Upto(o) == IF o = 0 THEN <<>>
                 ELSE IF \E wid \in AllHookIds : _webhooks[wid] = o /\ hook[o].user_id = user_id
                      THEN Append(Upto(o - 1), o)
                      ELSE Upto(o - 1)
  IN  Upto(nextObj - 1)

\* lines 395-402: the call up to its first await, or to its return
BroadcastEvent(user_id, event, data) ==
  /\ broadcast.pc = "idle"
  /\ LET b == [NoBroadcast EXCEPT !.user_id = user_id, !.event = event, !.data = data,
                                  !.todo = get_user_webhooks(user_id)]
         n == Loop(hook, b, send, nextSend)
     IN  /\ n.broadcast.pc # "stuck"
         /\ broadcast' = n.broadcast
         /\ send' = n.send
         /\ nextSend' = n.nextSend
  /\ hlast' = HookCall("broadcast_event", None, 0, None)
  /\ UNCHANGED <<_webhooks, hook, nextObj, _delivery_history, hnow, hops>>
  /\ UNCHANGED outsideHooks

\* lines 326, 371 and 399-402: call s returns r.  A call awaited by
\* broadcast_event hands r to it, and the loop goes on at once.
Returns(s, r, hk) ==
  LET sd == [send EXCEPT ![s].pc = "done", ![s].result = r]
  IN  IF broadcast.pc = "awaiting" /\ broadcast.cur = s
      THEN LET n == Loop(hk, [broadcast EXCEPT !.results = Append(@, r)], sd, nextSend)
           IN  /\ n.broadcast.pc # "stuck"
               /\ broadcast' = n.broadcast
               /\ send' = n.send
               /\ nextSend' = n.nextSend
      ELSE /\ send' = sd
           /\ UNCHANGED <<nextSend, broadcast>>

\* routers/webhooks.py line 359: call c has returned to the test endpoint that
\* awaited it, which puts its copy of the events back
Resumed(c, hk) ==
  IF c.tester THEN [hk EXCEPT ![c.obj].events = c.original_events] ELSE hk

\* line 306
Is2xx(status_code) == 200 <= status_code /\ status_code < 300

\* lines 329-336: the text kept from a failed attempt
ErrorOf(outcome) == IF outcome = Timeout THEN "Timeout na requisicao" ELSE "HTTP error"

\* faulty variant of Backoff: every wait is retry_delay
Backoff_fixed(a) == retry_delay

\* lines 339-340: the wait after failed attempt number a
Backoff(a) == retry_delay * (2 ^ a)

\* lines 329-345: the attempt of call c has failed with error; the call sleeps
\* before its next attempt, or leaves the loop after its last one
AttemptFailed(c, error) ==
  [c EXCEPT !.last_error = error,
            !.pc = IF c.attempt < max_retries - 1 THEN "sleeping" ELSE "closing",
            !.delay = IF c.attempt < max_retries - 1 THEN Backoff(c.attempt) ELSE 0]

\* faulty variant of Delivered: the failures counted so far are kept
Delivered_keeps_count(w) == [w EXCEPT !.last_triggered_at = hnow]

\* lines 307-308: the bookkeeping of a 2xx response
Delivered(w) == [w EXCEPT !.last_triggered_at = hnow, !.failure_count = 0]

\* lines 297-345: the POST in flight ends with a response or with an exception
Respond(s, outcome) ==
  /\ send[s].pc = "posting"
  /\ LET c == send[s]
     IN  IF Is2xx(outcome)
         THEN LET r == DeliveryResult(TRUE, c.wid, c.event, outcome, None, c.attempts)
                  hk == Resumed(c, [hook EXCEPT ![c.obj] = Delivered(@)])
              IN  /\ hook' = hk
                  /\ _delivery_history' = Append(_delivery_history, r)
                  /\ Returns(s, r, hk)
         ELSE /\ send' = [send EXCEPT ![s] = AttemptFailed(c, ErrorOf(outcome))]
              /\ UNCHANGED <<hook, _delivery_history, nextSend, broadcast>>
  /\ hlast' = OutcomeCall(send[s].wid, s, outcome)
  /\ UNCHANGED <<_webhooks, nextObj, hnow, hops>>
  /\ UNCHANGED outsideHooks

\* lines 373-376: asyncio.sleep(delay) of call s goes on for one more second
Elapse(s) ==
  /\ send[s].pc = "sleeping"
  /\ send[s].waited < send[s].delay
  /\ send' = [send EXCEPT ![s].waited = @ + 1]
  /\ hlast' = HookCall("send.sleep", send[s].wid, s, None)
  /\ UNCHANGED <<_webhooks, hook, nextObj, _delivery_history, nextSend, hnow, hops,
                 broadcast>>
  /\ UNCHANGED outsideHooks

\* line 345: await asyncio.sleep(delay) returns when delay seconds have passed
Slept(c) == c.waited = c.delay

\* lines 293-301: the sleep is over, the next attempt is posted
Wake(s) ==
  /\ send[s].pc = "sleeping"
  /\ Slept(send[s])
  /\ send' = [send EXCEPT ![s].pc = "posting",
                          ![s].attempt = @ + 1,
                          ![s].attempts = send[s].attempt + 2,
                          ![s].delay = 0,
                          ![s].waited = 0,
                          ![s].posted = @ + 1,
                          ![s].requests = Append(@, Request(send[s]))]
  /\ hlast' = HookCall("send.wake", send[s].wid, s, None)
  /\ UNCHANGED <<_webhooks, hook, nextObj, _delivery_history, nextSend, hnow, hops,
                 broadcast>>
  /\ UNCHANGED outsideHooks

\* faulty variant of Failed: the webhook is never switched off
Failed_stays_active(w, attempts) == [w EXCEPT !.failure_count = @ + 1]

\* faulty variant of Failed: every failed attempt is counted
Failed_per_attempt(w, attempts) == [w EXCEPT !.failure_count = @ + attempts]

\* faulty variant of Failed: a failure overwrites the count instead of adding
\* to it, so that the earlier failures are lost
Failed_overwrites(w, attempts) == [w EXCEPT !.failure_count = 1]

\* lines 349-353: one more failure; the webhook is switched off at DeactivateAt
Failed(w, attempts) ==
  [w EXCEPT !.failure_count = @ + 1,
            !.active = IF w.failure_count + 1 >= DeactivateAt THEN FALSE ELSE @]

\* lines 347-371: the client is closed, every attempt has failed
Finish(s) ==
  /\ send[s].pc = "closing"
  /\ LET c == send[s]
         r == DeliveryResult(FALSE, c.wid, c.event, 0, c.last_error, c.attempts)
         hk == Resumed(c, [hook EXCEPT ![c.obj] = Failed(@, c.attempts)])
     IN  /\ hook' = hk
         /\ _delivery_history' = Append(_delivery_history, r)
         /\ Returns(s, r, hk)
  /\ hlast' = HookCall("send.finish", send[s].wid, s, None)
  /\ UNCHANGED <<_webhooks, nextObj, hnow, hops>>
  /\ UNCHANGED outsideHooks

\* ------------------------------------------------------------ POST /webhooks/{id}/test
\* routers/webhooks.py lines 308-370.  The endpoint adds the test event to the
\* events of the webhook, awaits send_webhook and then assigns its copy of
\* the events back (Resumed).  A send_webhook call that returns early does not
\* suspend, and the endpoint is then one step.
test_event == "task.completed"
TestData == "test"

TestWebhook(s, wid, user_id) ==
  /\ s = nextSend
  /\ IF _webhooks[wid] = 0
     THEN /\ hlast' = HookCall("test_webhook", wid, 0, "404")
          /\ UNCHANGED <<hook, send, nextSend, _delivery_history>>
     ELSE IF hook[_webhooks[wid]].user_id # user_id
     THEN /\ hlast' = HookCall("test_webhook", wid, 0, "403")
          /\ UNCHANGED <<hook, send, nextSend, _delivery_history>>
     ELSE LET o == _webhooks[wid]
              original_events == hook[o].events
              hk == [hook EXCEPT ![o].events = @ \cup {test_event}]
          IN  /\ nextSend' = nextSend + 1
              /\ hlast' = HookCall("test_webhook", wid, s, None)
              /\ IF FailFastOn(hk, wid, test_event) # ""
                 THEN LET c == [EarlyCall(hk, wid, test_event) EXCEPT
                                  !.tester = TRUE, !.original_events = original_events]
                      IN  /\ send' = [send EXCEPT ![s] = c]
                          /\ hook' = Resumed(c, hk)
                          /\ _delivery_history' = Returned(_delivery_history, c.result)
                 ELSE /\ send' = [send EXCEPT ![s] =
                                    [FirstPost(hk, wid, test_event, TestData) EXCEPT
                                       !.tester = TRUE,
                                       !.original_events = original_events]]
                      /\ hook' = hk
                      /\ UNCHANGED _delivery_history
  /\ UNCHANGED <<_webhooks, nextObj, hnow, hops, broadcast>>
  /\ UNCHANGED outsideHooks

\* ------------------------------------------------------------ get_delivery_history
\* Python h[start:] for a list h: a negative start counts from the end, and
\* the result is cut to the list
SliceFrom(h, start) ==
  LET n == Len(h)
      from == IF start < 0 THEN Max(n + start, 0) ELSE Min(start, n)
  IN  SubSeq(h, from + 1, n)

\* lines 419-424
get_delivery_history(webhook_id, limit) ==
  LET history == IF webhook_id # None /\ webhook_id # ""
                 THEN SelectSeq(_delivery_history, LAMBDA r : r.webhook_id = webhook_id)
                 ELSE _delivery_history
  IN  SliceFrom(history, 0 - limit)

GetDeliveryHistory(webhook_id, limit) ==
  /\ hlast' = [HookCall("get_delivery_history", webhook_id, 0, None) EXCEPT
                 !.limit = limit, !.ret = get_delivery_history(webhook_id, limit)]
  /\ UNCHANGED <<_webhooks, hook, nextObj, _delivery_history, send, nextSend, hnow, hops,
                 broadcast>>
  /\ UNCHANGED outsideHooks

\* ------------------------------------------------------------ the webhook clock
HookTick ==
  /\ hnow < MaxHookTime
  /\ hnow' = hnow + 1
  /\ hlast' = HookCall("tick", None, 0, None)
  /\ UNCHANGED <<_webhooks, hook, nextObj, _delivery_history, send, nextSend, hops,
                 broadcast>>
  /\ UNCHANGED outsideHooks

NextHooks ==
  \/ \E wid \in HookIds, uid \in Users, url \in UrlInputs, events \in EventsInputs,
        secret \in Secrets : RegisterWebhook(wid, uid, url, events, secret)
  \/ \E wid \in HookIds, uid \in Users, url \in UrlInputs, events \in EventsInputs,
        secret \in Secrets : CreateWebhook(wid, uid, url, events, secret)
  \/ \E wid \in HookIds : DeleteWebhook(wid)
  \/ \E wid \in HookIds, url \in UrlArgs, events \in EventsArgs, secret \in SecretArgs,
        active \in ActiveArgs : UpdateWebhook(wid, url, events, secret, active)
  \/ \E s \in SendIds, wid \in HookIds, event \in SendEvents, data \in Datas :
        SendWebhook(s, wid, event, data)
  \/ \E s \in SendIds, outcome \in Outcomes : Respond(s, outcome)
  \/ \E s \in SendIds : Elapse(s)
  \/ \E s \in SendIds : Wake(s)
  \/ \E s \in SendIds : Finish(s)
  \/ HookTick

HookSpec == Init /\ [][NextHooks]_vars

\* every POST ends (with a response, or with the timeout of the client), every
\* sleep ends, and the close of the client ends
HookFairness ==
  \A s \in SendIds :
    /\ WF_vars(\E outcome \in Outcomes : Respond(s, outcome))
    /\ WF_vars(Elapse(s))
    /\ WF_vars(Wake(s))
    /\ WF_vars(Finish(s))

FairHookSpec == HookSpec /\ HookFairness

\* send_webhook calls that have started and not returned
InFlight(s) == send[s].pc \in {"posting", "sleeping", "closing"}

\* ------------------------------------------------------------ deliveries
\* One registration with fixed valid arguments and up to MaxDeliveries
\* send_webhook calls to it, which may overlap and may be cancelled.
MaxDeliveries == 2
DeliveryIds == 1..MaxDeliveries
DeliverySecrets == {None, "", "k"}

\* faulty variant of Handled: the handlers of the POST catch every exception
Handled_all(exc) == TRUE

\* lines 331-336: the handlers around the POST catch the subclasses of
\* Exception; asyncio.CancelledError is a BaseException and passes them
Handled(exc) == exc # "CancelledError"

\* lines 292-345: the task running call s is cancelled at one of its awaits
\* (the POST, the sleep, the close of the client); CancelledError is not an
\* Exception, so no handler of the call runs and nothing after it either
Cancel(s) ==
  /\ send[s].pc \in {"posting", "sleeping", "closing"}
  /\ IF send[s].pc = "posting" /\ Handled("CancelledError")
     THEN /\ send' = [send EXCEPT ![s] = AttemptFailed(@, "Erro inesperado")]
          /\ UNCHANGED broadcast
     ELSE /\ send' = [send EXCEPT ![s].pc = "cancelled"]
          /\ broadcast' = IF broadcast.pc = "awaiting" /\ broadcast.cur = s
                          THEN [broadcast EXCEPT !.pc = "cancelled"]
                          ELSE broadcast
  /\ hlast' = HookCall("send.cancel", send[s].wid, s, "CancelledError")
  /\ UNCHANGED <<_webhooks, hook, nextObj, _delivery_history, nextSend, hnow, hops>>
  /\ UNCHANGED outsideHooks

NextDelivery ==
  \/ \E secret \in DeliverySecrets :
        /\ _webhooks["w1"] = 0
        /\ RegisterWebhook("w1", 1, "https://h", {"task.completed"}, secret)
  \/ \E s \in DeliveryIds, data \in Datas : SendWebhook(s, "w1", "task.completed", data)
  \/ \E s \in DeliveryIds, outcome \in Outcomes : Respond(s, outcome)
  \/ \E s \in DeliveryIds : Elapse(s)
  \/ \E s \in DeliveryIds : Wake(s)
  \/ \E s \in DeliveryIds : Finish(s)
  \/ \E s \in DeliveryIds : Cancel(s)
  \/ HookTick

DeliverySpec == Init /\ [][NextDelivery]_vars

\* ------------------------------------------------------------ the circuit breaker
\* One registration whose endpoint answers 500 to every POST, and MaxCalls
\* send_webhook calls to it, at most MaxInFlight of them at a time.
MaxInFlight == 2

NextBreaker ==
  \/ /\ _webhooks["w1"] = 0
     /\ RegisterWebhook("w1", 1, "https://h", {"task.completed"}, None)
  \/ \E s \in Slots, data \in Datas :
        /\ Cardinality({t \in Slots : InFlight(t)}) < MaxInFlight
        /\ SendWebhook(s, "w1", "task.completed", data)
  \/ \E s \in Slots : Respond(s, 500)
  \/ \E s \in Slots : Elapse(s)
  \/ \E s \in Slots : Wake(s)
  \/ \E s \in Slots : Finish(s)

BreakerSpec == Init /\ [][NextBreaker]_vars

\* ------------------------------------------------------------ broadcasts
\* Webhooks of two users, made by POST /webhooks, switched off and deleted at
\* any moment, and one broadcast_event call for the first user.
Owners == {1, 2}
Subscriptions == {{"task.completed"}, {"task.failed"}}

NextBroadcast ==
  \/ \E wid \in AllHookIds, uid \in Owners, events \in Subscriptions :
        CreateWebhook(wid, uid, "https://h", events, None)
  \/ \E wid \in AllHookIds : DeleteWebhook(wid)
  \/ \E wid \in AllHookIds : UpdateWebhook(wid, {}, {}, {}, {FALSE})
  \/ \E data \in Datas : BroadcastEvent(1, "task.completed", data)
  \/ \E s \in Slots, outcome \in {200, 500} : Respond(s, outcome)
  \/ \E s \in Slots : Elapse(s)
  \/ \E s \in Slots : Wake(s)
  \/ \E s \in Slots : Finish(s)

BroadcastSpec == Init /\ [][NextBroadcast]_vars

\* ------------------------------------------------------------ the history
\* Two webhooks, MaxHistory send_webhook calls to them one after the other,
\* and readers of the history.
MaxHistory == 3
HistoryIds == 1..MaxHistory
IdArgs == {None} \cup AllHookIds
Limits == {0, 1, 2}

NextHistory ==
  \/ \E wid \in AllHookIds : CreateWebhook(wid, 1, "https://h", {"task.completed"}, None)
  \/ \E s \in HistoryIds, wid \in AllHookIds, data \in Datas :
        /\ \A t \in Slots : ~InFlight(t)
        /\ SendWebhook(s, wid, "task.completed", data)
  \/ \E s \in HistoryIds, outcome \in {200, 500} : Respond(s, outcome)
  \/ \E s \in HistoryIds : Elapse(s)
  \/ \E s \in HistoryIds : Wake(s)
  \/ \E s \in HistoryIds : Finish(s)
  \/ \E webhook_id \in IdArgs, limit \in Limits : GetDeliveryHistory(webhook_id, limit)

HistorySpec == Init /\ [][NextHistory]_vars

\* ------------------------------------------------------------ webhook claims
HttpUrl(url) == StartsWith(url, "http://") \/ StartsWith(url, "https://")

Registered(wid) == _webhooks[wid] # 0


\* C18: register_webhook (and POST /webhooks over it) rejects a request whose
\* url is not an http(s) url or whose events are not all in the nine-event
\* vocabulary, and then no registration is added or changed; otherwise it
\* stores the registration as given, active, with failure_count 0 and
\* last_triggered_at unset.
C18_RegisterValidates ==
  [][hlast'.op \in {"register_webhook", "create_webhook"}
     => LET wid == hlast'.wid
        IN  IF ~HttpUrl(hlast'.url) \/ ~(hlast'.events \subseteq WebhookEvent)
            THEN /\ hlast'.err \in {"ValueError", "400", "422"}
                 /\ _webhooks' = _webhooks
                 /\ hook' = hook
            ELSE IF hlast'.op = "create_webhook" /\ hlast'.events = {}
            THEN hlast'.err = "422" /\ _webhooks' = _webhooks /\ hook' = hook
            ELSE /\ hlast'.err \in {None, "201"}
                 /\ _webhooks'[wid] # 0
                 /\ hook'[_webhooks'[wid]].id = wid
                 /\ hook'[_webhooks'[wid]].url = hlast'.url
                 /\ hook'[_webhooks'[wid]].events = hlast'.events
                 /\ hook'[_webhooks'[wid]].active
                 /\ hook'[_webhooks'[wid]].failure_count = 0
                 /\ hook'[_webhooks'[wid]].last_triggered_at = NoTime
                 /\ \A w \in HookIds \ {wid} : _webhooks'[w] = _webhooks[w]
                 /\ \A o \in ObjIds \ {_webhooks'[wid]} : hook'[o] = hook[o]]_vars

\* a registration request has just been rejected while a registration is stored
C18_Witness ==
  /\ hlast.op = "register_webhook"
  /\ hlast.err = "ValueError"
  /\ \E wid \in HookIds : Registered(wid)

\* C19: a send_webhook call for an unknown id, for an inactive registration or
\* for an event the registration is not subscribed to returns at once with
\* success = false, posts nothing, and leaves every registration and the
\* delivery history as they were.
C19_SendFailsFast ==
  [][hlast'.op = "send_webhook"
     => LET s == hlast'.s
            wid == hlast'.wid
        IN  (\/ ~Registered(wid)
             \/ ~hook[_webhooks[wid]].active
             \/ send'[s].event \notin hook[_webhooks[wid]].events)
            => /\ send'[s].pc = "done"
               /\ ~send'[s].result.success
               /\ send'[s].posted = 0
               /\ hook' = hook
               /\ _webhooks' = _webhooks
               /\ _delivery_history' = _delivery_history]_vars

\* a call to a registration that was switched off has returned without a POST
C19_Witness ==
  \E s \in SendIds :
    /\ send[s].pc = "done"
    /\ send[s].result.error = "Webhook desativado"
    /\ send[s].posted = 0
    /\ Registered(send[s].wid)

\* C20: a send_webhook call never posts more than max_retries times; a call
\* whose attempts all fail returns only after exactly max_retries posts, with
\* success = false and attempts = max_retries, and its return raises the
\* failure_count of the registration it was made to by exactly one; and every
\* call that has started returns.
C20_RetriesExhausted ==
  /\ [](\A s \in SendIds :
          /\ send[s].posted <= max_retries
          /\ send[s].pc = "closing" => send[s].posted = max_retries
          /\ (send[s].pc = "done" /\ send[s].posted > 0 /\ ~send[s].result.success)
             => /\ send[s].posted = max_retries
                /\ send[s].result.attempts = max_retries)
  /\ [][hlast'.op = "send.finish"
        => LET s == hlast'.s
           IN  /\ send'[s].pc = "done"
               /\ ~send'[s].result.success
               /\ send'[s].result.attempts = max_retries
               /\ send'[s].posted = max_retries
               /\ hook'[send[s].obj].failure_count = hook[send[s].obj].failure_count + 1]_vars
  /\ \A s \in SendIds : InFlight(s) ~> (send[s].pc = "done")

\* a call has just returned after max_retries failed attempts
C20_Witness ==
  \E s \in SendIds :
    /\ hlast.op = "send.finish"
    /\ hlast.s = s
    /\ send[s].posted = max_retries
    /\ ~send[s].result.success
    /\ hook[send[s].obj].failure_count = 1

\* C21: in send_webhook a 2xx response to attempt k (1 <= k <= max_retries)
\* ends the call with success: the result has success = TRUE and attempts = k,
\* failure_count of the registration is 0 whatever it was, last_triggered_at
\* is set, the result is the newest history entry, and the call that has
\* returned never posts or changes again.
C21_SuccessIsTerminal ==
  [][/\ (hlast'.op = "send.respond" /\ Is2xx(hlast'.outcome)) =>
          LET s == hlast'.s
              k == send[s].posted
              o == send[s].obj
          IN  /\ 1 <= k /\ k <= max_retries
              /\ k = Len(send[s].requests)
              /\ send'[s].pc = "done"
              /\ send'[s].result.success
              /\ send'[s].result.attempts = k
              /\ send'[s].result.status_code = hlast'.outcome
              /\ send'[s].posted = k
              /\ send'[s].requests = send[s].requests
              /\ hook'[o].failure_count = 0
              /\ hook'[o].last_triggered_at = hnow
              /\ hook'[o].last_triggered_at # NoTime
              /\ _delivery_history' = Append(_delivery_history, send'[s].result)
     /\ \A s \in Slots : send[s].pc = "done" => send'[s] = send[s]
    ]_vars

\* a 2xx response to a later attempt of a call to a registration that had
\* counted a failure before
C21_Witness ==
  /\ hlast.op = "send.respond"
  /\ Is2xx(hlast.outcome)
  /\ send[hlast.s].result.attempts = 2
  /\ \E i \in 1..Len(_delivery_history) :
        /\ ~_delivery_history[i].success
        /\ _delivery_history[i].webhook_id = hlast.wid
        /\ i < Len(_delivery_history)
  /\ hook[send[hlast.s].obj].failure_count = 0

\* the entries of the history that record a terminal failure of a call to wid
FailuresOf(wid) ==
  {i \in 1..Len(_delivery_history) :
     ~_delivery_history[i].success /\ _delivery_history[i].webhook_id = wid}

\* C22: a fresh registration whose send_webhook calls all end in terminal
\* failure counts one failure per call, is active while fewer than 10 calls
\* have failed and inactive from the 10th on, and a send_webhook call made
\* while it is inactive returns a failure without any POST.
C22_TenFailuresDeactivate ==
  [][/\ \A wid \in AllHookIds :
          Registered(wid) =>
            LET w == hook[_webhooks[wid]]
            IN  /\ w.failure_count = Cardinality(FailuresOf(wid))
                /\ w.active <=> (Cardinality(FailuresOf(wid)) < 10)
     /\ (hlast'.op = "send_webhook" /\ Registered(hlast'.wid)
           /\ Cardinality(FailuresOf(hlast'.wid)) >= 10) =>
          LET c == send'[hlast'.s]
          IN  /\ c.pc = "done"
              /\ ~c.result.success
              /\ c.result.error = "Webhook desativado"
              /\ c.posted = 0
              /\ c.requests = <<>>
              /\ hook' = hook
              /\ _delivery_history' = _delivery_history
    ]_vars

\* a call made after the 10th failure has returned
C22_Witness ==
  /\ hlast.op = "send_webhook"
  /\ Registered(hlast.wid)
  /\ Cardinality(FailuresOf(hlast.wid)) = 10
  /\ ~hook[_webhooks[hlast.wid]].active
  /\ send[hlast.s].pc = "done"
  /\ send[hlast.s].posted = 0

\* the ninth failure has been counted and the registration is still active
C22_NineFailures ==
  \E wid \in AllHookIds :
    /\ Registered(wid)
    /\ Cardinality(FailuresOf(wid)) = 9
    /\ hook[_webhooks[wid]].active

\* C23: once send_webhook has switched a registration off, no POST is made
\* for it while it stays off, whatever the interleaving of the calls: neither
\* by a new call nor by a call that was between two attempts at that moment.
C23_NoPostWhileInactive ==
  [][\A s \in Slots :
       send'[s].posted > send[s].posted => hook[send'[s].obj].active
    ]_vars

\* the webhooks that user_id has in the table
OwnedBy(user_id) ==
  {o \in ObjIds : hook[o].user_id = user_id /\ \E wid \in AllHookIds : _webhooks[wid] = o}

\* the send_webhook calls that the broadcast has made, in the order of the loop
RECURSIVE SentIn(_)
SentIn(turns) ==
  IF turns = <<>> THEN <<>>
  ELSE IF Head(turns).s = 0 THEN SentIn(Tail(turns))
  ELSE <<Head(turns).s>> \o SentIn(Tail(turns))

\* C24: broadcast_event(owner, event, data) visits exactly the webhooks of the
\* owner, calls send_webhook for a visited webhook if and only if it is active
\* and subscribed to the event when its turn comes, never calls it for a
\* webhook of another owner, goes on to the remaining webhooks whatever the
\* outcome of a send, and returns the results of the calls it made, one per
\* call, in the order of the calls.
C24_BroadcastFansOut ==
  [][/\ hlast'.op = "broadcast_event" =>
          /\ Range([i \in 1..Len(broadcast'.turns) |-> broadcast'.turns[i].obj])
               \cup Range(broadcast'.todo) = OwnedBy(broadcast'.user_id)
          /\ Len(broadcast'.turns) + Len(broadcast'.todo)
               = Cardinality(OwnedBy(broadcast'.user_id))
     /\ broadcast.pc # "idle" =>
          /\ [i \in 1..Len(broadcast'.turns) |-> broadcast'.turns[i].obj] \o broadcast'.todo
               = [i \in 1..Len(broadcast.turns) |-> broadcast.turns[i].obj] \o broadcast.todo
          /\ broadcast'.pc \in {"awaiting", "done"}
     /\ LET b == broadcast'
            calls == SentIn(b.turns)
        IN  /\ \A i \in 1..Len(b.turns) :
                 LET t == b.turns[i]
                 IN  /\ t.seen.user_id = b.user_id
                     /\ t.s # 0 <=> (t.seen.active /\ b.event \in t.seen.events)
                     /\ t.s # 0 =>
                          /\ send'[t.s].wid = t.seen.id
                          /\ send'[t.s].event = b.event
                          /\ send'[t.s].pc # "idle"
                          /\ send'[t.s].obj \in {0, t.obj}
            /\ b.pc = "awaiting" =>
                 /\ calls # <<>>
                 /\ b.cur = calls[Len(calls)]
                 /\ send'[b.cur].pc \in {"posting", "sleeping", "closing"}
                 /\ b.results = [i \in 1..(Len(calls) - 1) |-> send'[calls[i]].result]
            /\ b.pc = "done" =>
                 /\ b.todo = <<>>
                 /\ b.results = [i \in 1..Len(calls) |-> send'[calls[i]].result]
                 /\ \A i \in 1..Len(calls) : send'[calls[i]].pc = "done"
    ]_vars

\* a broadcast to two webhooks has returned; the delivery to the first one
\* failed for good, the second one was sent to all the same
C24_Witness ==
  /\ broadcast.pc = "done"
  /\ Len(broadcast.results) = 2
  /\ ~broadcast.results[1].success
  /\ broadcast.results[1].attempts = max_retries
  /\ broadcast.results[2].success
  /\ broadcast.results[1].webhook_id # broadcast.results[2].webhook_id

\* a broadcast has passed over a webhook of the owner without a send
C24_Skipped ==
  /\ broadcast.pc = "done"
  /\ \E i \in 1..Len(broadcast.turns) : broadcast.turns[i].s = 0
  /\ \E i \in 1..Len(broadcast.turns) : broadcast.turns[i].s # 0

\* the WebhookConfig objects made so far
Made(o) == hook[o].id # None

\* C25: cancelling a send_webhook call during a POST or a wait leaves
\* failure_count, active and last_triggered_at of every webhook and the
\* delivery history as they are, and the cancelled call does nothing more;
\* these change only in the step in which a call gets a 2xx response or has
\* used up its attempts.
C25_CancelLeavesBookkeeping ==
  [][/\ hlast'.op = "send.cancel" =>
          /\ hook' = hook
          /\ _delivery_history' = _delivery_history
          /\ _webhooks' = _webhooks
          /\ send'[hlast'.s].pc = "cancelled"
          /\ send'[hlast'.s].posted = send[hlast'.s].posted
     /\ \A s \in Slots : send[s].pc = "cancelled" => send'[s] = send[s]
     /\ (\/ _delivery_history' # _delivery_history
         \/ \E o \in ObjIds : Made(o) /\ hook'[o] # hook[o]) =>
          \/ hlast'.op = "send.respond" /\ Is2xx(hlast'.outcome)
          \/ hlast'.op = "send.finish" /\ send[hlast'.s].posted = max_retries
    ]_vars

\* a call cancelled during the wait after a failed attempt and a call
\* cancelled during a POST, the webhook untouched
C25_Witness ==
  /\ hlast.op = "send.cancel"
  /\ send[hlast.s].pc = "cancelled"
  /\ send[hlast.s].last_error # None
  /\ \E t \in Slots : t # hlast.s /\ send[t].pc = "cancelled" /\ send[t].last_error = None
  /\ hook[send[hlast.s].obj].failure_count = 0
  /\ hook[send[hlast.s].obj].active
  /\ _delivery_history = <<>>

\* the entries of the history that a reader asking for webhook_id is to see
EntriesOf(webhook_id) ==
  IF webhook_id = None THEN _delivery_history
  ELSE SelectSeq(_delivery_history, LAMBDA r : r.webhook_id = webhook_id)

\* the last n entries of h
LastOf(h, n) == SubSeq(h, Len(h) - Min(n, Len(h)) + 1, Len(h))

\* the history grows by one entry, the result of the call, in the step in
\* which a send_webhook call gets a 2xx response or has used up its attempts,
\* and is the same after every other step
C26_AppendOnly ==
  [][IF \/ hlast'.op = "send.respond" /\ Is2xx(hlast'.outcome)
        \/ hlast'.op = "send.finish"
     THEN _delivery_history' = Append(_delivery_history, send'[hlast'.s].result)
     ELSE _delivery_history' = _delivery_history
    ]_vars

\* C26: the delivery history is append-only (one entry per send_webhook call
\* that ends in terminal success or terminal failure, no entry ever removed
\* or altered), and get_delivery_history(id, limit) returns the last
\* min(limit, n) of the n entries (of webhook id, when an id is given) in the
\* order in which they were appended.
C26_HistoryAppendOnlyAndBounded ==
  [][/\ IF \/ hlast'.op = "send.respond" /\ Is2xx(hlast'.outcome)
           \/ hlast'.op = "send.finish"
        THEN _delivery_history' = Append(_delivery_history, send'[hlast'.s].result)
        ELSE _delivery_history' = _delivery_history
     /\ hlast'.op = "get_delivery_history" =>
          /\ hlast'.ret = LastOf(EntriesOf(hlast'.wid), hlast'.limit)
          /\ Len(hlast'.ret) <= hlast'.limit
    ]_vars

\* a reader that asked for the last entry of one of two webhooks with entries
C26_Reader ==
  /\ hlast.op = "get_delivery_history"
  /\ hlast.wid # None
  /\ hlast.limit = 1
  /\ Len(hlast.ret) = 1
  /\ Len(EntriesOf(hlast.wid)) = 2
  /\ Len(_delivery_history) = 3
  /\ hlast.ret[1] = _delivery_history[2]

\* POST /tasks/{id}/cancel answers 404 exactly for an id that is not in the
\* table and 400 exactly for a job that is there and not Pending, changing
\* nothing in both cases, and 200 exactly for a Pending job, whose get_status
\* is failed with the cancellation text right after the request
C27_Responses ==
  [][\A id \in Ids :
       (last'.op = "POST cancel" /\ last'.id = id) =>
           /\ last'.ret \in {404, 400, 200}
           /\ last'.ret = 404 <=> ~InTable(id)
           /\ last'.ret = 400 <=> (InTable(id) /\ task[id].status # PENDING)
           /\ last'.ret = 200 <=> (InTable(id) /\ task[id].status = PENDING)
           /\ last'.ret # 200 => task' = task
           /\ last'.ret = 200 =>
                /\ get_status(id)'.found
                /\ get_status(id)'.status = FAILED
                /\ get_status(id)'.error = CancelledMsg
                /\ \A j \in Ids \ {id} : task'[j] = task[j]
           /\ UNCHANGED <<_tasks, pc, _value, _waiters>>]_vars

\* C27: POST /tasks/{id}/cancel answers 404 for an unknown id, 400 for a job
\* that is not Pending (and changes nothing), and 200 exactly for a Pending
\* job; from then on get_status of that job, as long as the job is in the
\* table, says failed with the error text of the cancellation.
C27_CancelEndpoint ==
  [][/\ \A id \in Ids :
          (last'.op = "POST cancel" /\ last'.id = id) =>
              /\ last'.ret = 404 <=> ~InTable(id)
              /\ last'.ret = 400 <=> (InTable(id) /\ task[id].status # PENDING)
              /\ last'.ret = 200 <=> (InTable(id) /\ task[id].status = PENDING)
              /\ last'.ret # 200 => task' = task
              /\ last'.ret = 200 =>
                   /\ get_status(id)'.status = FAILED
                   /\ get_status(id)'.error = CancelledMsg
     /\ \A j \in Ids :
          (/\ get_status(j).found
           /\ get_status(j).status = FAILED
           /\ get_status(j).error = CancelledMsg
           /\ get_status(j)'.found) =>
            /\ get_status(j)'.status = FAILED
            /\ get_status(j)'.error = CancelledMsg
    ]_vars

\* the three answers have been given: 200 for a Pending job, 400 for the same
\* job afterwards, 404 for an id that was never handed out
C27_Answers ==
  /\ last.op = "POST cancel"
  /\ last.ret = 400
  /\ task[last.id].status = FAILED
  /\ task[last.id].error = CancelledMsg

\* C28: in send_webhook the wait after failed attempt number a (counted from
\* 0) is retry_delay * 2^a; the call waits only after an attempt that is not
\* its last one, so never before the first attempt and never after the last;
\* and an attempt after a wait starts only when the whole wait has passed.
C28_BackoffBetweenAttempts ==
  [][\A s \in Slots :
       /\ send'[s].pc = "sleeping" =>
            /\ send'[s].attempt < max_retries - 1
            /\ send'[s].delay = retry_delay * (2 ^ send'[s].attempt)
            /\ send'[s].waited <= send'[s].delay
            /\ send'[s].posted = send'[s].attempt + 1
       /\ (send[s].pc # "sleeping" /\ send'[s].pc = "sleeping") =>
            /\ send[s].pc = "posting"
            /\ hlast'.op = "send.respond" /\ ~Is2xx(hlast'.outcome)
            /\ send'[s].waited = 0
       /\ (send[s].pc = "idle" /\ send'[s].posted > 0) =>
            /\ send'[s].posted = 1 /\ send'[s].pc = "posting" /\ send'[s].waited = 0
       /\ (send[s].pc = "posting" /\ send[s].attempt = max_retries - 1) =>
            send'[s].pc \in {"posting", "closing", "done", "cancelled"}
       /\ (send[s].posted > 0 /\ send'[s].posted > send[s].posted) =>
            /\ send[s].pc = "sleeping"
            /\ send[s].waited = retry_delay * (2 ^ send[s].attempt)
            /\ send'[s].posted = send[s].posted + 1
            /\ send'[s].attempt = send[s].attempt + 1
    ]_vars

\* the third attempt of a call is posted, after waits of retry_delay and of
\* twice retry_delay
C28_Witness ==
  /\ hlast.op = "send.wake"
  /\ send[hlast.s].posted = 3
  /\ send[hlast.s].attempt = 2
  /\ send[hlast.s].pc = "posting"

\* the envelope of a call to wid for event at time ts, serialized
Envelope(event, ts, wid, data) ==
  ToString([event |-> event, timestamp |-> ts, webhook_id |-> wid, data |-> data])

\* a secret is configured (None and the empty string are none)
HasSecret(w) == w.secret # None /\ w.secret # ""

\* C29: the body of a send_webhook call is the envelope {event, timestamp,
\* webhook_id, data} serialized at the start of the call; every attempt of the
\* call posts this same body with the same headers; the headers name the event
\* and the webhook id, and hold X-Webhook-Signature if and only if the webhook
\* has a secret, its value being the HMAC-SHA256 of the posted body under
\* that secret.
C29_OneBodyOneSignature ==
  [][/\ \A s \in Slots :
          (send[s].posted = 0 /\ send'[s].posted > 0) =>
            \E data \in Datas :
              send'[s].requests[1].content = Envelope(send'[s].event, hnow, send'[s].wid, data)
     /\ \A s \in Slots :
          LET c == send'[s]
              w == hook[c.obj]
          IN  c.posted > 0 =>
                /\ Len(c.requests) = c.posted
                /\ \A i \in 1..Len(c.requests) :
                     /\ c.requests[i].content = c.requests[1].content
                     /\ c.requests[i].headers = c.requests[1].headers
                     /\ c.requests[i].url = w.url
                /\ LET h == c.requests[1].headers
                   IN  /\ {"Content-Type", "User-Agent", "X-Webhook-Event", "X-Webhook-Id"}
                            \subseteq DOMAIN h
                       /\ DOMAIN h \subseteq {"Content-Type", "User-Agent", "X-Webhook-Event",
                                              "X-Webhook-Id", "X-Webhook-Signature"}
                       /\ h["Content-Type"] = "application/json"
                       /\ h["X-Webhook-Event"] = c.event
                       /\ h["X-Webhook-Id"] = c.wid
                       /\ ("X-Webhook-Signature" \in DOMAIN h) <=> HasSecret(w)
                       /\ HasSecret(w) =>
                            h["X-Webhook-Signature"] =
                              [prefix |-> "sha256=", key |-> w.secret,
                               message |-> c.requests[1].content]
    ]_vars

\* the third attempt of a call to a webhook with a secret, posted after the
\* clock has moved on from the timestamp of the envelope
C29_Witness ==
  \E s \in Slots :
    /\ send[s].posted = 3
    /\ hook[send[s].obj].secret = "k"
    /\ "X-Webhook-Signature" \in DOMAIN send[s].requests[3].headers
    /\ hnow = 1
    /\ \E data \in Datas :
         send[s].requests[3].content = Envelope(send[s].event, 0, send[s].wid, data)
    /\ \E t \in Slots :
         /\ send[t].posted > 0
         /\ hook[send[t].obj].secret = "k"
         /\ send[t].requests[1].content # send[s].requests[1].content

\* the entries of c but the one of key k
ButFor(c, k) == SelectSeq(c, LAMBDA e : e.key # k)

\* C30: a get_cached_audio call for a key that memory does not hold, or holds
\* in an expired entry, and that has a file in the persistent store returns
\* the persistent value and stores nothing: the expired entry is removed, every
\* other entry, the order of the entries, the recency order and the hits are
\* as before, and the key is still absent from memory and present in the
\* persistent store, so that the next lookup of the key takes the same way.
C30_DiskHitNotPromoted ==
  [][/\ \A k \in Keys :
          (/\ clast'.op = "get_cached_audio"
           /\ clast'.key = k
           /\ clast'.fault = "none"
           /\ k \in disk
           /\ \/ IndexOf(_cache, k) = 0
              \/ clock - EntryOf(_cache, k).created_at > EntryOf(_cache, k).ttl) =>
            /\ clast'.ret = "/outputs/cache/" \o k \o ".wav"
            /\ ~clast'.raised
            /\ _cache' = ButFor(_cache, k)
            /\ recency' = SelectSeq(recency, LAMBDA x : x # k)
            /\ get_hits' = get_hits
            /\ IndexOf(_cache', k) = 0
            /\ k \in disk'
     /\ \A k \in Keys :
          (/\ clast.op = "get_cached_audio" /\ clast.key = k
           /\ clast.ret = "/outputs/cache/" \o k \o ".wav"
           /\ clast'.op = "get_cached_audio" /\ clast'.key = k /\ clast'.fault = "none") =>
            /\ clast'.ret = clast.ret
            /\ _cache' = _cache
    ]_vars

\* a lookup has just removed an expired entry and returned the persistent
\* value
C30_Witness ==
  /\ clast.op = "get_cached_audio"
  /\ clast.ret = "/outputs/cache/" \o clast.key \o ".wav"
  /\ clast.dropped
  /\ IndexOf(_cache, clast.key) = 0
  /\ clast.key \in disk

\* two lookups of a key in a row have returned the persistent value
C30_Twice ==
  /\ clast.op = "get_cached_audio"
  /\ clast.ret = "/outputs/cache/" \o clast.key \o ".wav"
  /\ cops = 2
  /\ get_hits = 0
  /\ _cache = <<>>

\* ------------------------------------------------------------ list_tasks
ListLimits == {1, 2}
Filters == {None} \cup TaskStatus

\* lines 232-239: the entry of the list for job id
Summary(id) ==
  [task_id |-> id, status |-> task[id].status, progress |-> task[id].progress,
   completed_at |-> task[id].completed_at]

\* lines 229-240: the last limit jobs of the table, of which those that pass
\* the filter are kept
list_tasks(status_filter, limit) ==
  LET picked == SelectSeq(SliceFrom(_tasks, 0 - limit),
                          LAMBDA id : status_filter = None \/ task[id].status = status_filter)
  IN  [i \in 1..Len(picked) |-> Summary(picked[i])]

\* GET /tasks (routers/tasks.py lines 53-88) with a status that parses
ListTasks(status_filter, limit) ==
  /\ last' = [op |-> "list_tasks", id |-> 0, arg |-> limit,
              ret |-> [status_filter |-> status_filter,
                       tasks |-> list_tasks(status_filter, limit)]]
  /\ UNCHANGED <<_tasks, task, nextId, pc, _value, _waiters, now>>
  /\ UNCHANGED outsideJobs

NextListing ==
  \/ Submit
  \/ \E j \in Ids : Start(j)
  \/ \E j \in Ids : Resume(j)
  \/ \E j \in Ids, r \in Results : ExecReturn(j, r)
  \/ \E j \in Ids, m \in Messages : ExecRaise(j, m)
  \/ \E id \in Ids : CancelTask(id)
  \/ \E h \in MaxAgeInputs : CleanupOldTasks(h)
  \/ Tick
  \/ \E status_filter \in Filters, limit \in ListLimits : ListTasks(status_filter, limit)

ListingSpec == Init /\ [][NextListing]_vars

\* ------------------------------------------------------------ job claims, continued
\* cancel_task(j) has returned true and the _execute coroutine of j has not
\* yet got past the semaphore: only cancel_task writes the cancellation text,
\* and nothing overwrites it before the executor has ended
CancelledBeforeAdmission(j) ==
  /\ task[j].error = CancelledMsg
  /\ pc[j] \in {"scheduled", "waiting", "granted"}

\* C31: once cancel_task(id) has returned true the executor of job id is never
\* invoked: when the job's _execute coroutine gets its slot it does not go on
\* to run the caller's function.
C31_CancelledNeverExecuted ==
  [][\A j \in Ids : CancelledBeforeAdmission(j) => pc'[j] # "running"]_vars
\* the _execute coroutines that hold a slot: inside the "async with", or
\* handed the slot by release() and not yet run again
Holding == {j \in Ids : pc[j] \in {"granted", "running"}}

\* C32: concurrency slots never leak: the number of slots taken from the
\* semaphore is the number of _execute coroutines between admission and exit,
\* whichever way the earlier ones left (executor returned, executor raised,
\* the lookup of line 100 raised), and with none in progress all
\* max_concurrent slots are free.
C32_SlotsNeverLeak ==
  /\ _value \in 0..max_concurrent
  /\ max_concurrent - _value = Cardinality(Holding)
  /\ Holding = {} => _value = max_concurrent

\* a job has left by the KeyError of line 100, another through its executor,
\* and all slots are free again
C32_Witness ==
  /\ \E j \in Ids : pc[j] = "crashed"
  /\ \E j \in Ids : pc[j] = "done"
  /\ _value = max_concurrent
\* C33: a job that cleanup_old_tasks has removed from the table has no
\* _execute coroutine that is still scheduled, queued or running, so that
\* line 100 always finds the job of the coroutine that has acquired its slot.
C33_ExecutionFindsJob ==
  \A j \in Ids :
    /\ pc[j] \in {"scheduled", "waiting", "granted", "running"} => InTable(j)
    /\ pc[j] # "crashed"
\* C39: in every reachable state the stats summary reports total_tasks as the
\* number of jobs in the table, by_status counts in which every job of the
\* table is counted under its status and which add up to total_tasks, and
\* max_concurrent as the configured limit, however many jobs are Processing.
C39_StatsSummary ==
  /\ manager_stats.total_tasks = Cardinality(Range(_tasks))
  /\ \A st \in TaskStatus :
       manager_stats.by_status[st] =
         Cardinality({j \in Ids : InTable(j) /\ task[j].status = st})
  /\ manager_stats.by_status[PENDING] + manager_stats.by_status[PROCESSING]
       + manager_stats.by_status[COMPLETED] + manager_stats.by_status[FAILED]
     = manager_stats.total_tasks
  /\ manager_stats.max_concurrent = max_concurrent

\* the jobs of the table that have the requested status, in submission order
Matching(status_filter) ==
  SelectSeq(_tasks, LAMBDA id : status_filter = None \/ task[id].status = status_filter)

\* C40: list_tasks(status_filter, limit) with limit >= 1 returns, in
\* submission order, the min(limit, m) most recently submitted jobs that have
\* the requested status, m being the number of jobs of the table with that
\* status (all jobs when there is no filter); every entry has the requested
\* status and there are never more than limit entries.
C40_ListTasks ==
  [][\A status_filter \in Filters, limit \in ListLimits :
       (/\ last'.op = "list_tasks"
        /\ last'.arg = limit
        /\ last'.ret.status_filter = status_filter) =>
          LET m == Len(Matching(status_filter))
              n == Min(limit, m)
              got == last'.ret.tasks
          IN  /\ Len(got) = n
              /\ Len(got) <= limit
              /\ \A i \in 1..Len(got) :
                   status_filter # None => got[i].status = status_filter
              /\ \A i \in 1..n :
                   i <= Len(got) => got[i] = Summary(Matching(status_filter)[m - n + i])
    ]_vars

\* ------------------------------------------------------------ cache claims, continued
\* C34: MemoryCache.set(k, v) on a key that is stored overwrites the value,
\* the creation time and the hit count of k, makes k the most recently used
\* entry (the last one of the OrderedDict, the end that eviction spares), and
\* evicts no other key, whether or not the store is full.
C34_SetOnStoredKey ==
  [][(clast'.op = "set" /\ clast'.key \in KeysOf(_cache))
     => (/\ clast'.key \in KeysOf(_cache')
         /\ EntryOf(_cache', clast'.key).value = clast'.val
         /\ EntryOf(_cache', clast'.key).created_at = clock
         /\ EntryOf(_cache', clast'.key).hits = 0
         /\ _cache'[Len(_cache')].key = clast'.key
         /\ KeysOf(_cache') = KeysOf(_cache))]_vars
\* ------------------------------------------------------------ the registry
\* register_webhook, update_webhook and delete_webhook, with update_webhook
\* given a new url and a new events list
UrlUpdates == {{}} \cup {{u} : u \in UrlInputs}
EventsUpdates == {{}} \cup {{e} : e \in EventsInputs}

NextRegistry ==
  \/ \E wid \in HookIds, uid \in Users, url \in UrlInputs, events \in EventsInputs,
        secret \in Secrets : RegisterWebhook(wid, uid, url, events, secret)
  \/ \E wid \in HookIds, url \in UrlUpdates, events \in EventsUpdates, secret \in SecretArgs,
        active \in ActiveArgs : UpdateWebhook(wid, url, events, secret, active)
  \/ \E wid \in HookIds : DeleteWebhook(wid)

RegistrySpec == Init /\ [][NextRegistry]_vars

\* ------------------------------------------------------------ reactivation
\* One registration and MaxCalls send_webhook calls to it, one after the
\* other; the owner may switch the registration on with update_webhook at any
\* moment.  The endpoint answers 500 until the registration has counted
\* DeactivateAt failures; from then on it may also answer 200.
NextReactivation ==
  \/ /\ _webhooks["w1"] = 0
     /\ RegisterWebhook("w1", 1, "https://h", {"task.completed"}, None)
  \/ UpdateWebhook("w1", {}, {}, {}, {TRUE})
  \/ \E s \in Slots, data \in Datas :
        /\ \A t \in Slots : ~InFlight(t)
        /\ SendWebhook(s, "w1", "task.completed", data)
  \/ \E s \in Slots : Respond(s, 500)
  \/ \E s \in Slots :
        /\ send[s].pc = "posting"
        /\ hook[send[s].obj].failure_count >= DeactivateAt
        /\ Respond(s, 200)
  \/ \E s \in Slots : Elapse(s)
  \/ \E s \in Slots : Wake(s)
  \/ \E s \in Slots : Finish(s)

ReactivationSpec == Init /\ [][NextReactivation]_vars

\* ------------------------------------------------------------ concurrent calls
\* One registration, never deleted and never registered again, and MaxOverlap
\* send_webhook calls to it that may all be in flight together.
MaxOverlap == 3
OverlapIds == 1..MaxOverlap

NextConcurrent ==
  \/ /\ _webhooks["w1"] = 0
     /\ RegisterWebhook("w1", 1, "https://h", {"task.completed"}, None)
  \/ \E s \in OverlapIds, data \in Datas : SendWebhook(s, "w1", "task.completed", data)
  \/ \E s \in OverlapIds, outcome \in {200, 500} : Respond(s, outcome)
  \/ \E s \in OverlapIds : Elapse(s)
  \/ \E s \in OverlapIds : Wake(s)
  \/ \E s \in OverlapIds : Finish(s)

ConcurrentSpec == Init /\ [][NextConcurrent]_vars

\* ------------------------------------------------------------ the test endpoint
\* One registration subscribed to task.failed only, calls of its test
\* endpoint by its owner and by another user, and send_webhook calls for
\* task.completed and task.failed, all of which may overlap.
MaxTests == 3
TestIds == 1..MaxTests
Configured == {"task.failed"}

NextTest ==
  \/ /\ _webhooks["w1"] = 0
     /\ RegisterWebhook("w1", 1, "https://h", Configured, None)
  \/ \E s \in TestIds, wid \in AllHookIds, user_id \in Owners : TestWebhook(s, wid, user_id)
  \/ \E s \in TestIds, event \in SendEvents, data \in Datas : SendWebhook(s, "w1", event, data)
  \/ \E s \in TestIds, outcome \in {200, 500} : Respond(s, outcome)
  \/ \E s \in TestIds : Elapse(s)
  \/ \E s \in TestIds : Wake(s)
  \/ \E s \in TestIds : Finish(s)

TestSpec == Init /\ [][NextTest]_vars

\* ------------------------------------------------------------ webhook claims, continued
\* C35: whatever register_webhook, update_webhook and delete_webhook calls
\* were made, every registration in the table has a url that starts with
\* http:// or https:// and events that all belong to the event vocabulary.
C35_StoredRegistrationsValid ==
  \A wid \in AllHookIds :
    Registered(wid) =>
      /\ HttpUrl(hook[_webhooks[wid]].url)
      /\ hook[_webhooks[wid]].events \subseteq WebhookEvent
\* C36: update_webhook never changes failure_count, so a registration that
\* the circuit breaker switched off and update_webhook(active=true) switched
\* on again still has failure_count >= 10, and the next send_webhook call that
\* ends with all its attempts failed switches it off again; the count goes
\* back to 0 only when a send_webhook call ends with a 2xx response.
C36_UpdateKeepsFailureCount ==
  [][/\ hlast'.op = "update_webhook" =>
          \A o \in ObjIds : hook'[o].failure_count = hook[o].failure_count
     /\ \A s \in Slots :
          (/\ hlast'.op = "send.finish"
           /\ hlast'.s = s
           /\ hook[send[s].obj].failure_count >= DeactivateAt) =>
              /\ ~hook'[send[s].obj].active
              /\ hook'[send[s].obj].failure_count = hook[send[s].obj].failure_count + 1
     /\ \A o \in ObjIds :
          (hook[o].failure_count > 0 /\ hook'[o].failure_count = 0) =>
              /\ hlast'.op = "send.respond"
              /\ Is2xx(hlast'.outcome)
              /\ send[hlast'.s].obj = o
    ]_vars

\* the registration was switched off by its 10th failure, switched on again
\* by update_webhook, and switched off again by the failure of the next call
C36_Witness ==
  /\ hlast.op = "send.finish"
  /\ Registered("w1")
  /\ hook[_webhooks["w1"]].failure_count = DeactivateAt + 1
  /\ ~hook[_webhooks["w1"]].active
  /\ hops >= 2

\* a 2xx response after the reactivation has cleared the count
C36_Reset ==
  /\ hlast.op = "send.respond"
  /\ Is2xx(hlast.outcome)
  /\ Registered("w1")
  /\ hook[_webhooks["w1"]].failure_count = 0
  /\ hook[_webhooks["w1"]].active
  /\ Len(_delivery_history) > DeactivateAt
\* the entries of the history for wid, and the last successful one (0 for none)
RecordsOf(wid) == {i \in 1..Len(_delivery_history) : _delivery_history[i].webhook_id = wid}

LastSuccess(wid) ==
  LET ok == {i \in RecordsOf(wid) : _delivery_history[i].success}
  IN  IF ok = {} THEN 0 ELSE CHOOSE i \in ok : \A k \in ok : k <= i

\* the calls to wid that ended with all attempts failed after the last call
\* that ended with a 2xx response
FailuresSinceSuccess(wid) ==
  {i \in RecordsOf(wid) : i > LastSuccess(wid) /\ ~_delivery_history[i].success}

\* C37: however the send_webhook calls to one registration (not deleted, not
\* registered again) interleave, no update of failure_count is lost: at every
\* moment it is the number of calls that ended in terminal failure after the
\* last call that ended in terminal success, or since the registration.
C37_NoLostFailureUpdates ==
  \A wid \in AllHookIds :
    Registered(wid) =>
      hook[_webhooks[wid]].failure_count = Cardinality(FailuresSinceSuccess(wid))

\* two calls have ended in terminal failure and both are counted, while a
\* third call, started before they ended, is still in flight
C37_Witness ==
  /\ Registered("w1")
  /\ hook[_webhooks["w1"]].failure_count = 2
  /\ hlast.op = "send.finish"
  /\ \E s, t \in OverlapIds :
       /\ s # t
       /\ send[s].pc = "done" /\ ~send[s].result.success
       /\ send[t].pc = "done" /\ ~send[t].result.success
  /\ \E u \in OverlapIds : send[u].pc = "closing"

\* a failure, then a success, then a failure: one failure is counted
C37_AfterSuccess ==
  /\ Registered("w1")
  /\ Len(_delivery_history) = 3
  /\ LastSuccess("w1") = 2
  /\ hook[_webhooks["w1"]].failure_count = 1
\* C38: a call of POST /webhooks/{id}/test leaves the events of the
\* registration as they were before the call, and at no moment, the time the
\* test delivery is in flight included, does a send_webhook call other than
\* the test delivery POST an event that the owner has not subscribed the
\* registration to.
C38_TestLeavesSubscription ==
  [][\A s \in TestIds :
       /\ (send[s].tester /\ InFlight(s) /\ send'[s].pc = "done") =>
             hook'[send[s].obj].events = send[s].original_events
       /\ (send'[s].posted > send[s].posted /\ ~send'[s].tester) =>
             send'[s].event \in Configured
    ]_vars
====
